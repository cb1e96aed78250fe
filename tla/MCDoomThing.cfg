SPECIFICATION ThingSpec
CONSTANT Types <- AllTypes
CHECK_DEADLOCK FALSE
 
PROPERTY ThingEnds
