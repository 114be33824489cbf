SPECIFICATION Ia32Spec
CONSTANT Ia32Words = 4
PROPERTY FaultsArePrecise
CHECK_DEADLOCK FALSE
