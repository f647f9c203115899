CONSTANT MaxCrashes = 1
SPECIFICATION Spec
PROPERTIES StartupCompletes
