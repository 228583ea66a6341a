----------------------------- MODULE WebhookClaims -----------------------------
(* What comments say of the webhook intake and the code does not do. *)
EXTENDS Webhook

\* "No project configured for this repo -- silently ignore."
\* (github_webhook_service.go:107): what GitHub is told is handled has its job
\* or was wanted by no project. The branch is taken for every error of the lookup,
\* so that a database error loses a push that a project wants, for good.
IgnoredOnlyWithoutProject ==
    \A r \in Requests :
        answer[r] \in {200, 204} /\ KindOf[delivery[r]] \in {"push", "tag"}
            => \/ jobs[delivery[r]] > 0
               \/ delivery[r] \in skipped \cup mistaken

\* "IsDuplicate returns true if the delivery ID has already been processed."
\* (handler.go:38): a request answered as a duplicate repeats one that was
\* handled. The keys of the map change under it, so that a new delivery may be
\* found there and is never handled.
DuplicateWasProcessed ==
    \A r \in Requests :
        answer[r] = 200 =>
            \E q \in Requests : delivery[q] = delivery[r] /\ answer[q] = 204
===============================================================================
