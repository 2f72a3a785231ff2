\* Goroutines price from, and write to, what one table gives them.
SPECIFICATION Spec
CONSTANTS
    Nil = Nil
    Fields <- MCFields
    Boxes <- MCBoxes
    Entries = {"gpt", "azure"}
    Snapshot <- MCSnapshot
    Overrides <- MCOverrides
    Cells <- MCCells
    Contents <- MCContents
    Goroutines = {g1, g2}
    Requests <- MCRequests
    Numbers = {9}
INVARIANTS
    AnswersAgree
PROPERTIES
    TableNeverWritten
