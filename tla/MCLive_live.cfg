SPECIFICATION Spec
PROPERTIES Recovers Told
CHECK_DEADLOCK FALSE
