\* One resource without Jira: three deliveries race, the service restarts once.
SPECIFICATION Spec
CONSTANTS
    Delivery = {d1, d2, d3}
    gitlabMR = gitlabMR
    githubIssue = githubIssue
    slackThread = slackThread
    jiraIssue = jiraIssue
    Resource = {gitlabMR}
    Platform <- MCPlatform
    JiraKey <- MCJiraKey
    Pending = Pending
    None = None
    AgentLinked = {}
    MaxRestarts = 1
SYMMETRY Symmetry
INVARIANTS
    TypeOK
    MarkerHasCreator
    MappedToOwnConversation
    NoRedelivery
PROPERTIES
    KeepsCommentFate
CHECK_DEADLOCK FALSE
