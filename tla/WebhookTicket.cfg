\* A comment on a Jira issue after a creation for it has failed.
SPECIFICATION Spec
CONSTANTS
    Delivery = {d1, d2}
    gitlabMR = gitlabMR
    githubIssue = githubIssue
    slackThread = slackThread
    jiraIssue = jiraIssue
    Resource = {jiraIssue}
    Platform <- MCPlatform
    JiraKey <- MCJiraKey
    Pending = Pending
    None = None
    AgentLinked = {}
    MaxRestarts = 0
PROPERTIES
    QueuesOnlyWhileCreating
CHECK_DEADLOCK FALSE
