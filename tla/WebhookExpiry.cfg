\* A second comment arrives while the first one's creation is still polling.
SPECIFICATION Spec
CONSTANTS
    Delivery = {d1, d2}
    gitlabMR = gitlabMR
    githubIssue = githubIssue
    slackThread = slackThread
    jiraIssue = jiraIssue
    Resource = {githubIssue}
    Platform <- MCPlatform
    JiraKey <- MCJiraKey
    Pending = Pending
    None = None
    AgentLinked = {}
    MaxRestarts = 0
PROPERTIES
    ExpiresOnlyStuckMarkers
CHECK_DEADLOCK FALSE
