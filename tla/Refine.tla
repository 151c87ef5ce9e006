------------------------------- MODULE Refine -------------------------------
(***************************************************************************)
(* The refinement loop of internal/refine: a judge decides whether an      *)
(* answer is usable, and the answer is generated again until it is, the    *)
(* rounds are spent or nothing improves.  Every round is one Run of the    *)
(* agent in a new session, under a deadline.  The loop runs in a goroutine *)
(* of its own and hands its rounds to the handler through a channel.       *)
(***************************************************************************)
EXTENDS AgentLoop

CONSTANTS
    MaxRefineIters,  \* most rounds a request may ask for
    DefaultMaxIters, \* rounds when it does not say
    MaxNoProgress,
    JudgeReplies     \* the lines a judge may answer

ASSUME RefineAssumption == MaxRefineIters \in Nat \ {0} /\ DefaultMaxIters \in Nat \ {0} /\ MaxNoProgress \in Nat \ {0}

VARIABLE rf \* the loop, its channel and its outcome

NoVerdict == [usable |-> FALSE, modes |-> <<>>]

NoRefine == [pc |-> "off", task |-> None, iters |-> 0, iter |-> 0, brief |-> FALSE, prev |-> {},
             stuck |-> 0, best |-> None, final |-> <<>>, usable |-> FALSE, reason |-> "max_iters",
             rounds |-> <<>>, chan |-> <<>>, out |-> None]

-----------------------------------------------------------------------------
(* The judge's reply, line by line; a later line wins.  A verdict that is not *)
(* there fails closed.                                                        *)

Line(label, val) == [label |-> label, val |-> val]

parseVerdict(lines) ==
    LET read(v, l) ==
            CASE l.label = "VERDICT" -> [v EXCEPT !.saw = TRUE,
                                                  !.usable = IF l.val = <<"NOT_USABLE">> THEN FALSE
                                                             ELSE IF l.val = <<"USABLE">> THEN TRUE ELSE @]
              [] l.label = "FAILURE_MODES" -> [v EXCEPT !.modes = l.val]
              [] OTHER -> v
        v == FoldLeft(read, [saw |-> FALSE, usable |-> FALSE, modes |-> <<>>], lines)
    IN IF v.saw THEN [usable |-> v.usable, modes |-> v.modes]
       ELSE [usable |-> FALSE, modes |-> Append(v.modes, "unparsable-verdict")]

withDefaults(n) == IF n = 0 THEN DefaultMaxIters ELSE n

(* Tags in any order and number.                                              *)
signature(modes) == Range(modes)

-----------------------------------------------------------------------------
(* A round begins: the agent runs the task, with a brief after the first      *)
(* round, in a session of its own.                                            *)

Fresh(body) == [ag EXCEPT !.pc = "begin", !.user = body, !.deadline = FALSE]

RefineGenerate ==
    /\ rf.pc = "next" /\ rf.iter < rf.iters
    /\ rf' = [rf EXCEPT !.pc = "gen", !.iter = @ + 1]
    /\ ag' = Fresh(IF rf.brief THEN Append(rf.task, "brief") ELSE rf.task)
    /\ session' = <<>> /\ seen' = {}
    /\ UNCHANGED <<prods, box, fs, cache, memory, gone, ctx, sse>>

RefineDeadline ==
    /\ rf.pc \in {"gen", "judge"} /\ ~ag.deadline
    /\ ag' = [ag EXCEPT !.deadline = TRUE]
    /\ UNCHANGED <<rf, session, prods, box, fs, cache, memory, gone, ctx, sse, seen>>

(* A round is recorded and handed over; the send gives up when the request    *)
(* is cancelled (the channel has room for every round).                       *)
ChanRoom == Len(rf.chan) < rf.iters + 1

Record(r, round) ==
    [r EXCEPT !.rounds = Append(@, round), !.chan = IF ChanRoom THEN Append(@, round) ELSE @]

(* The run failed.  Without an attempt to fall back on the loop ends with     *)
(* the error, else it goes on.                                                *)
RefineGenFailed ==
    /\ rf.pc = "gen" /\ ag.pc = "returned" /\ ~ag.ok
    /\ IF rf.best = None
       THEN rf' = [rf EXCEPT !.pc = "off", !.out = "error"]
       ELSE /\ ChanRoom \/ ctx # "live"
            /\ rf' = [Record(rf, [answer |-> None, verdict |-> [usable |-> FALSE, modes |-> <<"generation-error">>]])
                        EXCEPT !.pc = "next"]
    /\ UNCHANGED agentVars

RefineGenerated ==
    /\ rf.pc = "gen" /\ ag.pc = "returned" /\ ag.ok
    /\ rf' = [rf EXCEPT !.pc = "judge"]
    /\ UNCHANGED agentVars

(* What follows a verdict: a pass ends the loop; else the attempt with the    *)
(* fewest failure modes is kept, and the loop stops when the same modes       *)
(* recur too often.                                                           *)
Finished(r, reason) == [r EXCEPT !.pc = "off", !.reason = reason, !.out = "result"]

(* Mutant: the last draft replaces the best one.                              *)
keepLast(r, answer, modes) == [r EXCEPT !.final = answer, !.best = Len(modes)]

keepBest(r, answer, modes) ==
    IF r.best = None THEN [r EXCEPT !.final = answer, !.best = Len(modes)]
    ELSE IF Len(modes) < r.best THEN [r EXCEPT !.final = answer, !.best = Len(modes)] ELSE r

Decide(r, answer, verdict) ==
    LET kept == keepBest(r, answer, verdict.modes)
        sig == signature(verdict.modes)
        stuck == IF sig # {} /\ sig = r.prev THEN r.stuck + 1 ELSE 0
    IN IF verdict.usable THEN Finished([r EXCEPT !.usable = TRUE, !.final = answer], "usable")
       ELSE IF stuck >= MaxNoProgress THEN Finished(kept, "no_progress")
       ELSE [kept EXCEPT !.pc = "next", !.stuck = stuck, !.prev = sig, !.brief = TRUE]

(* An unreachable judge is a failed round.                                    *)
RefineJudge ==
    /\ rf.pc = "judge" /\ (ChanRoom \/ ctx # "live")
    /\ \E verdict \in {[usable |-> FALSE, modes |-> <<"judge-error">>]}
                      \cup (IF LoopCtx = "live" THEN {parseVerdict(l) : l \in JudgeReplies} ELSE {}) :
         rf' = Decide(Record(rf, [answer |-> ag.answer, verdict |-> verdict]), ag.answer, verdict)
    /\ UNCHANGED agentVars

RefineExhausted ==
    /\ rf.pc = "next" /\ rf.iter = rf.iters
    /\ rf' = Finished(rf, "max_iters")
    /\ UNCHANGED agentVars

(* A panic under the loop is recovered in its goroutine.                      *)
RefinePanic ==
    /\ rf.pc = "judge"
    /\ rf' = [rf EXCEPT !.pc = "off", !.out = "error"]
    /\ UNCHANGED agentVars

RefineLoop ==
    \/ RefineGenerate \/ RefineGenFailed \/ RefineGenerated
    \/ RefineJudge \/ RefineExhausted
=============================================================================
