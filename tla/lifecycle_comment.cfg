SPECIFICATION Spec
CONSTANT Conns = {c1, c2}
PROPERTY ReturnsAfterDrain
