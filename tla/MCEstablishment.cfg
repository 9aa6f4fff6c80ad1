SPECIFICATION Spec
PROPERTY EstablishmentEnds
CHECK_DEADLOCK FALSE
