\* One status query and two protocol messages reach a replica that has not
\* started; eventChan has the code's capacity.  Once every message is
\* handled the replica has nothing to do, so it may stop.
CONSTANTS
    Queries = 1
    Events = 2
    EventCap = 100
SPECIFICATION Spec
PROPERTY AllHandled
CHECK_DEADLOCK FALSE
