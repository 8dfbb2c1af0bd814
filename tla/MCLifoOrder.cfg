CONSTANT N = 3
SPECIFICATION LifoSpec
PROPERTY GetsLeastRecent
