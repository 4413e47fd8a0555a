\* One status query, two protocol messages (one of which may
\* be a stale vote) and one view; eventChan's
\* capacity of 100 is never reached.  The replica may stop once every
\* message is handled.
CONSTANTS
    Queries = 1
    Events = 2
    Views = 1
    Stale = 1
    EventCap = 100
SPECIFICATION Spec
PROPERTY AllHandledView
CHECK_DEADLOCK FALSE
