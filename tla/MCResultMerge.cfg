CONSTANT Columns <- MCColumns
SPECIFICATION MergeSpec
INVARIANT VerdictIsWorst
