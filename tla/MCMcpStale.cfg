\* Two reads of a resource that the server edits.
CONSTANTS
    Resources = {"x"}
    Prompts = {"p"}
    Dated = {"x"}
    Reads = {r1, r2}
    MaxEdition = 3
    PerDate = 1
    MaxSubs = 2
    Cursors = {1}
    MaxPages = 2
    MaxListed = 2
SPECIFICATION McpSpec
INVARIANT StaleUntilReread
CHECK_DEADLOCK FALSE
