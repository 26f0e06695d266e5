---------------------------- MODULE MCRallyCalm -----------------------------
(***************************************************************************)
(* MCRallySession with a history variable that remembers whether the car's *)
(* requests have come one at a time so far: what the statement order of a  *)
(* handler promises when nobody else is in between.                        *)
(***************************************************************************)
EXTENDS MCRallySession

VARIABLE calm    \* no two requests have overlapped

OneAtATime == \A p, q \in Phones : p = q \/ call[p].pc = "idle" \/ call[q].pc = "idle"

MCInit == Init /\ calm = TRUE
MCNext == Next /\ calm' = (calm /\ OneAtATime')
MCSpec == MCInit /\ [][MCNext]_<<vars, calm>>

\* "The total recomputed from the stored attempts" (SaveSubmission): while the car's
\* phones take turns, the stored total is exact after every step, even those of a
\* Ping or a Finish that dies halfway.
CalmTotalIsExact == calm => TotalIsExact

\* "StatusFinished is a crew that reached Pearl Bay; its score is locked": while the
\* car's phones take turns, a finished run's row and answers never change again,
\* whatever is retried after a call that died.
CalmFinishIsFinal ==
  [][calm' => \A s \in Sessions :
       row[s].status = "finished" => row'[s] = row[s] /\ answer'[s] = answer[s]]_<<row, answer>>

-----------------------------------------------------------------------------
(* The inductive invariant the proofs of the two rest on, beside IInv *)

\* A call past its first read is about a run that was made, and writes none back
\* that was not; so does a token, and a run not yet made has no answers.
Named(c) ==
  /\ c.pc \in Steps \ {"find", "create", "refind"} => row[c.sid].status # "none"
  /\ c.pc \in {"claim", "update"} => c.held.status # "none"
MadeInv ==
  /\ \A p \in Phones : Named(call[p]) /\ (token[p] # None => row[token[p]].status # "none")
  /\ \A s \in Sessions : row[s].status = "none" => Answered(s) = {}

\* As long as calls come one at a time, what the call at work read still stands.
Alone(c) ==
  /\ c.pc \in {"claim", "update", "save"} => row[c.sid].status # Finished
  /\ c.pc \in {"claim", "update"} => c.held.total = row[c.sid].total
CalmInv ==
  /\ MadeInv
  /\ calm => OneAtATime /\ TotalIsExact /\ \A p \in Phones : Alone(call[p])

=============================================================================
