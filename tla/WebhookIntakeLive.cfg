\* All four platforms, the Jira key in the merge request's texts, an agent that
\* links the merge request, fairness.
SPECIFICATION FairSpec
CONSTANTS
    Delivery = {d1, d2}
    gitlabMR = gitlabMR
    githubIssue = githubIssue
    slackThread = slackThread
    jiraIssue = jiraIssue
    Resource = {gitlabMR, githubIssue, slackThread, jiraIssue}
    Platform <- MCPlatform
    JiraKey <- MCJiraKey
    Pending = Pending
    None = None
    AgentLinked = {gitlabMR}
    MaxRestarts = 0
INVARIANTS
    IInv
PROPERTIES
    MarkerResolves
    EveryCommentSettles
CHECK_DEADLOCK FALSE
