SPECIFICATION Spec
PROPERTIES
    RestoresEnd
    EventsSettle
CHECK_DEADLOCK FALSE
