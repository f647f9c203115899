CONSTANT MaxCrashes = 0
SPECIFICATION Spec
PROPERTIES StartupCompletes
