SPECIFICATION Spec
CONSTANT MaxCommands = 2
INVARIANT CryptInsidePuf
