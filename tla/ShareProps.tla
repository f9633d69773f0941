------------------------------ MODULE ShareProps ------------------------------
(***************************************************************************)
(* What the cache of shares promises with views and deletes in any order.  *)
(***************************************************************************)
EXTENDS ShareCache

\* A share is marked as gone for good (nothing empties the set): only one whose
\* row or file is deleted is marked, however old what the view knew, or one
\* whose link could not be asked for at a time when it was much viewed.
EmptyIsGone == empty \cap shares \cap stored \subseteq unlinked

\* The board never shows more views of the day than a share's counter and the
\* times it could not be raised: such an error is dropped and the view put on the
\* board all the same.  Whatever views are in progress, stopped half way or counted
\* for a deleted share, nothing else sets the two apart this way round.
RankBehindViews == \A s \in Shares : daily[s] <= views[s] + missed[s]

\* When a delete has been answered Redis holds no link to the share, unless a
\* view that had read its row, or its pipeline, was still running, which alone can put the link
\* back, or Redis failed at its last deletion, an error that is dropped.  In
\* either case the link stays, as the hash has no expiry.  All a later view may
\* cache is the apology it answers.
DeletedNotCached ==
  \A s \in deleted \ (overtaken \cup unswept) : info[s] \subseteq {"Title"}

\* A share that has an owner in Redis is not cached again until a delete removes
\* it, and one that has a title is answered from there.  So once no pipeline on a
\* share that can be viewed is under way the owner is there only with the title
\* and the link, and the title only with the link: although pipelines of several
\* views run into each other, deletes that will fail empty the hash between their
\* commands, and the process dies.  Not so when a pipeline was cut short, or the
\* link could not be asked for and the apology is what was cached.  (While one is
\* under way a view may be answered with a title and no link.)
SettledIsWhole ==
  \A s \in (shares \cap stored) \ (unlinked \cup broken) :
    (\A t \in Threads : ~Sent(t, s))
      => /\ "Owner" \in info[s] => info[s] = Field
         /\ "Title" \in info[s] => "downloadUrl" \in info[s]
=============================================================================
