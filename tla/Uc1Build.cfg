SPECIFICATION Spec
CONSTANT MaxCommands = 3
INVARIANTS TypeOK FlashedTogether IpcAgreement VmsFit CryptInside
