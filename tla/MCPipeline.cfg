SPECIFICATION PipelineSpec
CONSTANTS
    N = 2
    Jobs <- NoJobs
    Fallback = 3
    Version = v1
    Versions = {v1, v2}
    Texts = {fine, illtyped, malformed, huge}
    Malformed = {malformed, huge}
    Illtyped = {illtyped}
    Treeless = {huge}
    Gone = gone
    Unread = unread
    NoReport = NoReport
    Miss = Miss
    Nobody = Nobody
    Others <- NoOne
    MaxEdits = 1
    MaxOthers = 1
INVARIANTS
    QuiescentReport
PROPERTIES
    ReportsAsSequential
    RefinesPool
    AlwaysReports
