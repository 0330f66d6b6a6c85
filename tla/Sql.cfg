\* A worker and the CLI, with up to four statements, imports and exports between them.
SPECIFICATION Spec
CONSTANTS
    Session = {worker, cli}
    Cli = cli
    None = None
    Plain <- MCPlain
    ReadAs <- MCReadAs
    Inserts <- MCInserts
    Updates <- MCUpdates
    Deletes <- OneRow
    Selects <- OneRow
    Dumps <- MCDumps
    MaxStatements = 4
INVARIANTS
    SchemaPresent
    ImportComplete
    ExportReadsBack
PROPERTIES
    NoUpsert
CHECK_DEADLOCK FALSE
