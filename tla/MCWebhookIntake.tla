-------------------------- MODULE MCWebhookIntake --------------------------
(* WebhookIntake on a few deliveries and resources.                        *)
EXTENDS WebhookIntake, TLC

CONSTANTS gitlabMR, githubIssue, slackThread, jiraIssue

PlatformOf ==
    (gitlabMR :> "gitlab") @@ (githubIssue :> "github")
        @@ (slackThread :> "slack") @@ (jiraIssue :> "jira")

MCPlatform == [r \in Resource |-> PlatformOf[r]]

\* The merge request's title names the Jira issue, if the issue is modelled.
MCJiraKey ==
    [r \in Resource |->
        IF r = gitlabMR /\ jiraIssue \in Resource THEN jiraIssue ELSE None]

Symmetry == Permutations(Delivery)
=============================================================================
