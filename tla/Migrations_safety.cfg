CONSTANT MaxCrashes = 2
SPECIFICATION Spec
INVARIANTS TypeOK LedgerRecordsApplied SingleRowTables
