------------------------------- MODULE CloudCourt -------------------------------
(***************************************************************************)
(* The L4 cloud court of the audit (02_brain/decision_engine.py): Bull and *)
(* Bear plead in two threads, the Judge rules, the Notary records and, for *)
(* a HOLD, an attribution is asked for.  Each of the five is one request   *)
(* to a cloud provider.  A request whose provider fails pauses until that  *)
(* provider answers HTTP 200, and one incident per provider and model is   *)
(* open meanwhile.                                                         *)
(*                                                                         *)
(* The five tries of a request are one step; their delays are left out.    *)
(* Scores are the code's integers, weights are in percent and the market   *)
(* sentiment phi in tenths.  The simplified path for a candidate beyond    *)
(* the first L4_CLOUD_TOP_K_MAX is left out.                               *)
(***************************************************************************)
EXTENDS Integers, FiniteSets

CONSTANTS
    BullReplies, BearReplies, JudgeReplies,  \* what may come back as HTTP 200
    Phis,         \* market sentiment, in tenths
    Weights,      \* RAG and Zeta weight of the ruling's score, in percent
    MaxOutages    \* bound on the outages of providers in a session

ASSUME CourtAssumption ==
    /\ BullReplies \subseteq {"STRONG", "MODERATE", "WEAK", "GUARDED", "GARBLED"}
    /\ BearReplies \subseteq {"FATAL", "MATERIAL", "MINOR", "GUARDED", "GARBLED"}
    /\ JudgeReplies \subseteq {"PASS", "HOLD", "VETO", "UNFIT", "GUARDED", "GARBLED"}
    /\ Phis \subseteq 0..10 /\ Weights \subseteq Nat /\ MaxOutages \in Nat

PassThreshold  == 68
WatchThreshold == 52

Providers == {"kimi", "deepseek", "qwen"}
Parties   == {"bull", "bear", "judge", "notary", "hold"}

\* The route and the model of a request are the key of its incident.
AdvocatesShareModel ==
       [bull |-> <<"kimi", "v1">>, bear |-> <<"kimi", "v1">>,
        judge |-> <<"deepseek", "flash">>,
        notary |-> <<"qwen", "plus">>, hold |-> <<"qwen", "plus">>]
Key == [bull |-> <<"kimi", "v1">>, bear |-> <<"deepseek", "pro">>,
        judge |-> <<"deepseek", "flash">>,
        notary |-> <<"qwen", "plus">>, hold |-> <<"qwen", "plus">>]
ProviderOf(p) == Key[p][1]

VARIABLES
    works,      \* providers that answer now
    outages,    \* outages in this session (bound)
    cpc,        \* where the court is
    brief,      \* the L3 result it hears
    call,       \* the request of each party
    reply,      \* what each party answered
    ruling,     \* the ruling of the first instance
    verdict,    \* the final verdict, "NONE" before it
    incidents   \* _L4_PROVIDER_INCIDENTS

courtVars == <<works, outages, cpc, brief, call, reply, ruling, verdict, incidents>>

\* The court as its caller sees it.
HearingState ==
    IF cpc \in {"idle", "ruled"} THEN cpc
    ELSE IF \E p \in Parties : call[p] = "paused" THEN "paused" ELSE "sitting"

H == INSTANCE Hearing WITH hpc <- HearingState, hbrief <- brief, hverdict <- verdict

NoRuling == [verdict |-> "NONE", score |-> 0, by |-> "nobody"]
Quiet    == [p \in Parties |-> "none"]
Adjourned ==
    /\ cpc = "idle" /\ brief = H!NoBrief /\ call = Quiet /\ reply = Quiet
    /\ ruling = NoRuling /\ verdict = "NONE"

CourtInit == works = Providers /\ outages = 0 /\ incidents = {} /\ Adjourned

\* The engine takes the result, or its process ends: all of this is its memory.  What
\* the providers do between two sessions is not observed; one that is still away is
\* one that goes away at the start of the next.
Adjourn ==
    /\ works' = Providers /\ outages' = 0
    /\ cpc' = "idle" /\ brief' = H!NoBrief /\ call' = Quiet /\ reply' = Quiet
    /\ ruling' = NoRuling /\ verdict' = "NONE"

-------------------------------------------------------------------------------
(* One request: api_call_with_retry and _pause_until_l4_provider_recovers.  *)

Replies(p) ==
    CASE p = "bull" -> BullReplies [] p = "bear" -> BearReplies
      [] p = "judge" -> JudgeReplies [] OTHER -> {"READ"}

Answer(p) ==
    /\ call' = [call EXCEPT ![p] = "answered"]
    /\ \E r \in Replies(p) : reply' = [reply EXCEPT ![p] = r]

Respond(p) ==
    /\ call[p] = "asking" /\ ProviderOf(p) \in works
    /\ Answer(p)
    /\ UNCHANGED <<works, outages, cpc, brief, ruling, verdict, incidents>>

\* Not to be retried, or the tries are exhausted.
Pause(p) ==
    /\ call[p] = "asking" /\ ProviderOf(p) \notin works
    /\ call' = [call EXCEPT ![p] = "paused"]
    /\ incidents' = incidents \union {Key[p]}
    /\ UNCHANGED <<works, outages, cpc, brief, reply, ruling, verdict>>

RecoverEmpty(p) ==
    /\ call[p] = "paused" /\ ProviderOf(p) \in works
    /\ call' = [call EXCEPT ![p] = "none"]
    /\ incidents' = incidents \ {Key[p]}
    /\ UNCHANGED <<works, outages, cpc, brief, reply, ruling, verdict>>

\* The poll gets HTTP 200, closes the incident and returns that answer.
Recover(p) ==
    /\ call[p] = "paused" /\ ProviderOf(p) \in works
    /\ Answer(p)
    /\ incidents' = incidents \ {Key[p]}
    /\ UNCHANGED <<works, outages, cpc, brief, ruling, verdict>>

ProviderDown(v) ==
    /\ cpc # "idle" /\ v \in works /\ outages < MaxOutages
    /\ works' = works \ {v} /\ outages' = outages + 1
    /\ UNCHANGED <<cpc, brief, call, reply, ruling, verdict, incidents>>

ProviderUp(v) ==
    /\ v \notin works
    /\ works' = works \union {v}
    /\ UNCHANGED <<outages, cpc, brief, call, reply, ruling, verdict, incidents>>

-------------------------------------------------------------------------------
(* L4SupremeCourt.audit.                                                    *)

\* A capital-flow EXIT is vetoed without a court.
Convene(b) ==
    /\ cpc = "idle"
    /\ brief' = b
    /\ \/ /\ b.zeta = "exit"
          /\ verdict' = "VETO" /\ cpc' = "ruled"
          /\ UNCHANGED call
       \/ /\ b.zeta # "exit"
          /\ call' = [call EXCEPT !["bull"] = "asking", !["bear"] = "asking"]
          /\ cpc' = "advocates"
          /\ UNCHANGED verdict
    /\ UNCHANGED <<works, outages, reply, ruling, incidents>>

Heard(p) == call[p] = "answered"

Insufficient == [verdict |-> "HOLD", score |-> 56, by |-> "judge"]

\* join of both threads, then the request to the Judge unless both pleas were
\* rejected by the evidence guards.
JoinEither == cpc = "advocates" /\ (Heard("bull") \/ Heard("bear"))
JoinBoth == cpc = "advocates" /\ Heard("bull") /\ Heard("bear")
Join ==
    /\ JoinBoth
    /\ IF reply["bull"] = "GUARDED" /\ reply["bear"] = "GUARDED"
          THEN /\ ruling' = Insufficient
               /\ call' = [call EXCEPT !["notary"] = "asking"]
               /\ cpc' = "notary"
          ELSE /\ call' = [call EXCEPT !["judge"] = "asking"]
               /\ cpc' = "judge"
               /\ UNCHANGED ruling
    /\ UNCHANGED <<works, outages, brief, reply, verdict, incidents>>

BandOf(score) ==
    IF score >= PassThreshold THEN "PASS"
    ELSE IF score >= WatchThreshold THEN "HOLD" ELSE "VETO"

BullScore(r) == CASE r = "STRONG" -> 82 [] r = "MODERATE" -> 72
                  [] r = "GUARDED" -> 50 [] OTHER -> 58
BearScore(r) == CASE r = "FATAL" -> 82 [] r = "MATERIAL" -> 68
                  [] r = "GUARDED" -> 50 [] OTHER -> 48

\* _local_ruling: the pleas are weighed without a Judge.
Weighted(b, c, w) == (b * w + (100 - c) * (100 - w)) \div 100
LocalRuling(phi) ==
    LET score == Weighted(BullScore(reply["bull"]), BearScore(reply["bear"]), 40 + 3 * phi)
    IN [verdict |-> BandOf(score), score |-> score, by |-> "local"]

\* _parse_judge_json accepts a score only inside the band of its verdict; a reply that
\* breaks the contract, or claims what the evidence does not hold, is a HOLD.
ScoresOf(v) == CASE v = "PASS" -> {68, 100} [] v = "HOLD" -> {52, 67} [] OTHER -> {0, 51}

Rulings ==
    CASE reply["judge"] = "GARBLED" -> {LocalRuling(phi) : phi \in Phis}
      [] reply["judge"] \in {"GUARDED", "UNFIT"} -> {Insufficient}
      [] OTHER -> {[verdict |-> reply["judge"], score |-> s, by |-> "judge"] :
                      s \in ScoresOf(reply["judge"])}

Rule ==
    /\ cpc = "judge" /\ Heard("judge")
    /\ ruling' \in Rulings
    /\ call' = [call EXCEPT !["notary"] = "asking"]
    /\ cpc' = "notary"
    /\ UNCHANGED <<works, outages, brief, reply, verdict, incidents>>

\* apply_rag_weight with the Zeta bonus, then _apply_court_verdict_cap.
Weighed == {(ruling.score * w) \div 100 + bonus : w \in Weights, bonus \in {0, 5}}
Uncapped(s) == BandOf(s)
BandOfCourt(s) ==
    IF ruling.verdict = "VETO" THEN "VETO"
    ELSE IF ruling.verdict = "HOLD" \/ brief.kind = "downgraded" THEN "HOLD"
    ELSE BandOf(s)

\* Macro trap, Zeta outage and news gate only lower a verdict.
Lowered(v) ==
    CASE v = "PASS" -> {"HOLD", "VETO"} \union (IF brief.zeta = "offline" THEN {} ELSE {"PASS"})
      [] v = "HOLD" -> {"HOLD", "VETO"}
      [] OTHER -> {"VETO"}

Guarded ==
    "GUARDED" \in {reply["bull"], reply["bear"], reply["judge"]}

\* The Notary is heard but has no say.  A HOLD that no evidence guard explains is
\* sent to attribution.
Record ==
    /\ cpc = "notary" /\ Heard("notary")
    /\ \E s \in Weighed :
        LET v == BandOfCourt(s) IN
        IF v = "HOLD" /\ ~Guarded
           THEN /\ call' = [call EXCEPT !["hold"] = "asking"]
                /\ cpc' = "attribution"
                /\ UNCHANGED verdict
           ELSE /\ verdict' \in Lowered(v)
                /\ cpc' = "ruled"
                /\ UNCHANGED call
    /\ UNCHANGED <<works, outages, brief, reply, ruling, incidents>>

Attribute ==
    /\ cpc = "attribution" /\ Heard("hold")
    /\ verdict' \in Lowered("HOLD")
    /\ cpc' = "ruled"
    /\ UNCHANGED <<works, outages, brief, call, reply, ruling, incidents>>

CourtStep ==
    \/ Join \/ Rule \/ Record \/ Attribute
    \/ \E p \in Parties : Respond(p) \/ Pause(p) \/ Recover(p)

Weather == \E v \in Providers : ProviderDown(v) \/ ProviderUp(v)

-------------------------------------------------------------------------------
(* The court by itself, one candidate after another.                        *)

TakeVerdict ==
    /\ cpc = "ruled"
    /\ Adjourn
    /\ UNCHANGED incidents

CourtNext == CourtStep \/ Weather \/ TakeVerdict \/ \E b \in H!Briefs : Convene(b)

CourtSpec == CourtInit /\ [][CourtNext]_courtVars

(***************************************************************************)
(* The threads go on, and an outage ends some day.                         *)
(***************************************************************************)
CourtLiveSpec ==
    /\ CourtSpec
    /\ WF_courtVars(Join \/ Rule \/ Record \/ Attribute \/ TakeVerdict)
    /\ \A p \in Parties : WF_courtVars(Respond(p) \/ Pause(p) \/ Recover(p))
    /\ \A v \in Providers : WF_courtVars(ProviderUp(v))

-------------------------------------------------------------------------------
(* Properties. *)

\* Type invariant of the court.
CourtTypeOK ==
    /\ works \subseteq Providers /\ outages \in 0..MaxOutages
    /\ cpc \in {"idle", "advocates", "judge", "notary", "attribution", "ruled"}
    /\ brief \in H!Briefs
    /\ call \in [Parties -> {"none", "asking", "paused", "answered"}]
    /\ \A p \in Parties : reply[p] \in IF Heard(p) THEN Replies(p) ELSE {"none"}
    /\ ruling.verdict \in H!Verdicts \union {"NONE"} /\ ruling.score \in 0..100
    /\ verdict \in IF cpc = "ruled" THEN H!Verdicts ELSE {"NONE"}
    /\ incidents \subseteq {Key[p] : p \in Parties}

\* "is_new_incident", "was_active" (decision_engine.py:2491, :2534): while a request is
\* paused its incident is open, and no incident outlives the pauses it stands for, so
\* that every PAUSED notice has a request behind it and a RECOVERED one after it.
PausedHasIncident ==
    incidents = {Key[p] : p \in {q \in Parties : call[q] = "paused"}}

\* "Keep score weighting inside the authoritative Judge/L3 envelope"
\* (decision_engine.py:6438): no weight, bonus or recorder makes a PASS of a ruling that
\* was none, of a downgraded L3 veto, or of a capital-flow signal that vetoes or is missing.
PassWithinEnvelope ==
    verdict = "PASS" =>
        ruling.verdict = "PASS" /\ brief.kind = "open" /\ brief.zeta = "none"

\* "Mandatory providers are allowed to block here; the main court must never outrun
\* them" (decision_engine.py:6596): a verdict of the court was given after both advocates,
\* the recorder and, unless both pleas were rejected, the Judge had answered.
NobodyOutrun ==
    cpc = "ruled" /\ ruling # NoRuling =>
        /\ Heard("bull") /\ Heard("bear") /\ Heard("notary")
        /\ Heard("judge") \/ (reply["bull"] = "GUARDED" /\ reply["bear"] = "GUARDED")

\* The court is a hearing: it pauses and goes on, and ends with one verdict inside the
\* envelope of the L3 result (decision_engine.py:6479).
ImplementsHearing == H!HearingSpec

\* A court that was convened rules, once the providers are back.
CourtRules == cpc = "advocates" ~> cpc = "ruled"
===============================================================================
