----------------------------- MODULE Moderation -----------------------------
(***************************************************************************)
(* Reviews: written by customers, moderated on the admin's reviews page    *)
(* (admin/src/pages/Reviews.jsx) and saved, with the reward for the first  *)
(* publication, by server/controllers/reviewController.js.                 *)
(*                                                                         *)
(* A change of status and a reply are one request, which carries both as   *)
(* the page shows them; of the reply the model keeps that it is saved.     *)
(***************************************************************************)
EXTENDS Integers, FiniteSets

CONSTANTS Reviews,       \* the products a customer got and may review
          MaxRequests,   \* bound on the changes moderators make
          MaxLosses    \* bound on requests that fail and answers that are lost

ASSUME ReviewsAreFinite == IsFiniteSet(Reviews)

VARIABLES
  review,     \* the documents: status, granted (rewardPointsGranted # 0), or NoReview
  paid,       \* rewards paid for each review
  requests,   \* updateReviewStatus under way or answered
  sent,       \* how many there were
  reads,      \* answers of listAdminReviews on their way
  rows,       \* reviews: the status shown, or "none"
  cards,      \* metrics: how many reviews have which status
  crossed,    \* history: the list was read, or another change of the same review made, while
              \* a change of status was under way
  excused,    \* history: rewards paid by a request that overlapped another for its review, or
              \* failed after it had paid
  losses

serverVars == <<review, paid>>
pageVars == <<rows, cards>>
reviewVars == <<serverVars, requests, sent, reads, pageVars, crossed, excused, losses>>

Statuses == {"pending", "published", "rejected"}
Verdicts == Statuses \ {"pending"}
NoReview == [status |-> "none", granted |-> FALSE]
Rewarded == [status |-> "rejected", granted |-> TRUE]

\* metrics of listAdminReviews
Count(status) == [s \in Statuses |-> Cardinality({r \in Reviews : status[r] = s})]
Stored == [r \in Reviews |-> review[r].status]

\* The page is opened; a review may have been published, rewarded and rejected before.
ReviewsInit ==
  /\ review \in [Reviews -> {NoReview, Rewarded}]
  /\ paid = [r \in Reviews |-> IF review[r].granted THEN 1 ELSE 0]
  /\ requests = {} /\ sent = 0
  /\ rows = [r \in Reviews |-> "none"]
  /\ cards = Count(rows)
  /\ reads = {Stored}
  /\ crossed = FALSE
  /\ excused = [r \in Reviews |-> 0]
  /\ losses = 0

Fault == losses < MaxLosses /\ losses' = losses + 1

-----------------------------------------------------------------------------
(* The server.                                                             *)

\* createReview: after a delivered order, and once, which the unique index sees to.
CreateReview(r) ==
  /\ review[r] = NoReview
  /\ review' = [review EXCEPT ![r].status = "pending"]
  /\ UNCHANGED <<paid, requests, sent, reads, pageVars, crossed, excused, losses>>

\* The request is over; only a change of status made on this page is waited for.
Settles(q, at) ==
  requests' = (requests \ {q}) \cup
                IF q.from = "other" THEN {} ELSE {[q EXCEPT !.at = at, !.copy = NoReview, !.overlaps = FALSE]}

\* updateReviewStatus: the document is read.
Read(q) ==
  /\ q \in requests /\ q.at = "sent"
  /\ LET overlaps == \E o \in requests : o.r = q.r /\ o.at \in {"read", "paid"}
     IN requests' = (requests \ {q}) \cup
                      {[q EXCEPT !.at = "read", !.copy = review[q.r], !.overlaps = overlaps]}
  /\ UNCHANGED <<serverVars, sent, reads, pageVars, crossed, excused, losses>>

\* Mutant of Rewards: every publication is rewarded.
RewardsAlways(q) == q.status = "published" /\ q.copy.status # "published"

\* The first publication is rewarded.
Rewards(q) == q.status = "published" /\ q.copy.status # "published" /\ ~q.copy.granted

\* awardLoyaltyPoints, before anything is saved.
Award(q) ==
  /\ q \in requests /\ q.at = "read" /\ Rewards(q)
  /\ paid' = [paid EXCEPT ![q.r] = @ + 1]
  /\ requests' = (requests \ {q}) \cup {[q EXCEPT !.at = "paid"]}
  /\ excused' = IF q.overlaps THEN [excused EXCEPT ![q.r] = @ + 1] ELSE excused
  /\ UNCHANGED <<review, sent, reads, pageVars, crossed, losses>>

\* save: what differs from the document that was read is written.
Save(q) ==
  /\ q \in requests
  /\ q.at = "paid" \/ (q.at = "read" /\ ~Rewards(q))
  /\ review' = [review EXCEPT ![q.r].status = IF q.status # q.copy.status THEN q.status ELSE @,
                              ![q.r].granted = @ \/ q.at = "paid"]
  /\ Settles(q, "saved")
  /\ UNCHANGED <<paid, sent, reads, pageVars, crossed, excused, losses>>

\* The request fails, before or after the points were awarded.
ChangeFails(q) ==
  /\ q \in requests /\ q.at \in {"sent", "read", "paid"} /\ Fault
  /\ Settles(q, "failed")
  /\ excused' = IF q.at = "paid" /\ ~q.overlaps THEN [excused EXCEPT ![q.r] = @ + 1] ELSE excused
  /\ UNCHANGED <<serverVars, sent, reads, pageVars, crossed>>

\* The answer is lost.
AnswerLost(q) ==
  /\ q \in requests /\ q.at = "saved" /\ Fault
  /\ Settles(q, "failed")
  /\ UNCHANGED <<serverVars, sent, reads, pageVars, crossed, excused>>

-----------------------------------------------------------------------------
(* The page.                                                               *)

\* callStatusEndpoint, for each review of ids; "other" are those whose answer changes
\* neither rows nor cards.
Submit(ids, from, Status(_)) ==
  LET new == {[n |-> sent + 1, r |-> r, from |-> from, status |-> Status(r), prev |-> rows[r],
               at |-> "sent", copy |-> NoReview, overlaps |-> FALSE] : r \in ids}
  IN /\ sent < MaxRequests /\ sent' = sent + 1
     /\ requests' = requests \cup new
     /\ UNCHANGED <<serverVars, reads, excused, losses>>

Of(from) == {q \in requests : q.from = from}
Changing == Of("status")
Listed == {r \in Reviews : rows[r] # "none"}

\* setReviewStatus: shown at once. The buttons wait for the last answer, the keys a and r
\* do not.
SetReviewStatus(r, s) ==
  /\ r \in Listed /\ rows[r] # s
  /\ Submit({r}, "status", LAMBDA x : s)
  /\ rows' = [rows EXCEPT ![r] = s]
  /\ crossed' = (crossed \/ reads # {} \/ \E q \in Changing : q.r = r)
  /\ UNCHANGED cards

\* saveAdminReply sends the status shown with the reply.
SaveAdminReply(r) ==
  /\ r \in Listed
  /\ Submit({r}, "other", LAMBDA x : rows[x])
  /\ UNCHANGED <<rows, cards, crossed>>

\* performBulk: nothing is shown before all are answered.
PerformBulk(ids, s) ==
  /\ Of("bulk") = {} /\ ids # {} /\ ids \subseteq Listed
  /\ Submit(ids, "bulk", LAMBDA x : s)
  /\ UNCHANGED <<rows, cards, crossed>>

\* Another moderator, at a page of her own.
OtherModerates(r, s) ==
  /\ review[r] # NoReview
  /\ Submit({r}, "other", LAMBDA x : s)
  /\ UNCHANGED <<rows, cards, crossed>>

\* Mutant of Adjust: the card of the status it had stays.
AdjustUp(q) == [cards EXCEPT ![q.status] = @ + 1]

\* The summary cards after a change, in setReviewStatus.
Adjust(q) == [cards EXCEPT ![q.prev] = IF @ > 0 THEN @ - 1 ELSE 0, ![q.status] = @ + 1]

\* The answer of a change of status; after a failure the row is as before.
Answered(q) ==
  /\ q \in Changing /\ q.at \in {"saved", "failed"}
  /\ requests' = requests \ {q}
  /\ cards' = IF q.at = "saved" THEN Adjust(q) ELSE cards
  /\ rows' = IF q.at = "failed" THEN [rows EXCEPT ![q.r] = q.prev] ELSE rows
  /\ UNCHANGED <<serverVars, sent, reads, crossed, excused, losses>>

\* All requests of a bulk change are answered: the list is read again.
BulkEnds ==
  /\ Of("bulk") # {} /\ \A q \in Of("bulk") : q.at \in {"saved", "failed"}
  /\ requests' = requests \ Of("bulk")
  /\ reads' = reads \cup {Stored}
  /\ crossed' = (crossed \/ Changing # {})
  /\ UNCHANGED <<serverVars, sent, rows, cards, excused, losses>>

\* fetchReviews, by Refresh (here one at a time).
FetchReviews ==
  /\ reads = {}
  /\ reads' = {Stored}
  /\ crossed' = (crossed \/ Changing # {})
  /\ UNCHANGED <<serverVars, requests, sent, pageVars, excused, losses>>

\* Its answer brings the rows and the cards.
ReviewsAnswer(list) ==
  /\ list \in reads
  /\ reads' = reads \ {list}
  /\ rows' = list
  /\ cards' = Count(list)
  /\ UNCHANGED <<serverVars, requests, sent, crossed, excused, losses>>

ReviewsFail(list) ==
  /\ list \in reads /\ Fault
  /\ reads' = reads \ {list}
  /\ UNCHANGED <<serverVars, requests, sent, pageVars, crossed, excused>>

ReviewsNext ==
  \/ \E r \in Reviews :
       \/ CreateReview(r) \/ SaveAdminReply(r)
       \/ \E s \in Statuses : SetReviewStatus(r, s)
       \/ \E s \in Verdicts : OtherModerates(r, s)
  \/ \E ids \in SUBSET Reviews, s \in Verdicts : PerformBulk(ids, s)
  \/ \E q \in requests : Read(q) \/ Award(q) \/ Save(q) \/ ChangeFails(q) \/ AnswerLost(q) \/ Answered(q)
  \/ BulkEnds \/ FetchReviews \/ \E list \in reads : ReviewsAnswer(list) \/ ReviewsFail(list)

ReviewsSpec == ReviewsInit /\ [][ReviewsNext]_reviewVars

-----------------------------------------------------------------------------
\* However often a review is published, rejected and published again, and by whom, its
\* reward is paid once; twice only if two requests were at it together, or one failed after
\* it had paid (updateReviewStatus, awardLoyaltyPoints).
RewardOnce ==
  \A r \in Reviews : paid[r] <= 1 + excused[r]

\* Between requests the summary cards count the rows shown, whichever changes of status
\* failed, unless the list was read or the row changed again during one (setReviewStatus,
\* fetchReviews).
CardsCountRows ==
  ~crossed /\ Changing = {} => cards = Count(rows)
=============================================================================
