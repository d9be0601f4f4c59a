\* From payloads to job traces, links and pipeline traces.
CONSTANTS
    None = None
    blank = blank
    padded = padded
    Texts <- MCTexts
    Clean <- MCClean
    Second = 2
    build = build
    lint = lint
    main = main
    trunk = trunk
    other = other
    Attempts <- MCAttempts
    sha = sha
    SHA = SHA
    short = short
    Commits <- MCCommits
    CommitSha <- MCCommitSha
    JobDeliveries <- MCJobs
    RunDeliveries <- MCRuns
    Protection <- MCProtection
    MaxChecks = 2
    StepLimit = 2
    MaxPipelineJobSpans = 2
    MaxPullRequests = 2
    MaxNanos = 2
    Unaddressable <- MCUnaddressable
    ReceivedAt = 2
    MaxDeliveries = 4
    Recurring <- Plain
SPECIFICATION Spec
INVARIANTS FailuresAreToldOnce PipelineMirrorsJobs
