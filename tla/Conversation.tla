---------------------------- MODULE Conversation ----------------------------
(***************************************************************************)
(* hedge-verify in a conversation.  The user prompts, the assistant takes  *)
(* its turn, and each of them raises a hook event that the session answers *)
(* in one step (Session).  The host writes all that is said into one       *)
(* transcript, which the Stop hook sees from its end, as far as its bound  *)
(* of bytes reaches; it may also write the injected nudge there.           *)
(***************************************************************************)
EXTENDS Session

CONSTANT Window     \* the most entries of the transcript the bound lets through

ASSUME WindowAssumption == Window \in Nat \ {0}

VARIABLES
    transcript, \* who said what, oldest first, the last Window + 2 entries
    turn,       \* whose turn it is, or whose hook is to run
    seen,       \* history: a Stop hook saw a hedge, and no nudge has been told since
    lost,       \* history: an answer that nudges has been lost since a hedge was seen
    nags        \* history: the nudges told since anyone last hedged

talk == <<transcript, turn, seen, lost, nags>>
all  == <<vars, talk>>

CInit ==
    /\ Init
    /\ transcript = <<>>
    /\ turn = "user"
    /\ seen = FALSE
    /\ lost = FALSE
    /\ nags = 0

-----------------------------------------------------------------------------
Recent(s, n) == SubSeq(s, IF Len(s) > n THEN Len(s) - n + 1 ELSE 1, Len(s))

TextOf(entries) ==
    IF \E i \in DOMAIN entries : entries[i].text = "hedged" THEN "hedged" ELSE "plain"

(* Faulty: the bound lets two more entries through. *)
TranscriptTailLong(log) == {""} \cup {TextOf(Recent(log, k)) : k \in 0 .. Window + 2}

(* transcriptTail: nothing when the file cannot be read, else its last bytes: *)
(* as many entries as fit, one that is cut counting as one of them where what *)
(* is left of it still shows its hedge, and none where even the last is cut   *)
(* so that its hedge is lost.                                                 *)
TranscriptTail(log) == {""} \cup {TextOf(Recent(log, k)) : k \in 0 .. Window}

(* The host appends an entry; a hedge starts the count of nudges anew. *)
Writes(by, text) ==
    /\ transcript' = Recent(Append(transcript, [by |-> by, text |-> text]), Window + 2)
    /\ nags' = IF text = "hedged" THEN 0 ELSE nags

Prompt ==
    /\ turn = "user"
    /\ owed = {}
    /\ \E text \in {"hedged", "plain"} : Writes("user", text)
    /\ turn' = "prompted"
    /\ UNCHANGED <<vars, seen, lost>>

Reply ==
    /\ turn = "assistant"
    /\ owed = {}
    /\ \E text \in {"hedged", "plain"} : Writes("assistant", text)
    /\ turn' = "stopped"
    /\ UNCHANGED <<vars, seen, lost>>

PromptHook ==
    /\ turn = "prompted"
    /\ Step(On("UserPromptSubmit"))
    /\ turn' = "assistant"
    /\ UNCHANGED <<transcript, seen, lost, nags>>

StopHook ==
    /\ turn = "stopped"
    /\ \E text \in TranscriptTail(transcript) :
          /\ Step(After(text))
          /\ IF text = "hedged" /\ record.fuel # 0
             THEN seen' = TRUE /\ lost' = FALSE
             ELSE UNCHANGED <<seen, lost>>
    /\ turn' = "user"
    /\ UNCHANGED <<transcript, nags>>

(* The hook of an event dies before it has recorded anything. *)
HookDies ==
    /\ turn \in {"prompted", "stopped"}
    /\ turn' = IF turn = "prompted" THEN "assistant" ELSE "user"
    /\ UNCHANGED <<vars, transcript, seen, lost, nags>>

Nudge(answer) == \E i \in DOMAIN answer.context : answer.context[i] = "nudge"

(* The answer is told; the host may write what was injected to the file. *)
Told ==
    /\ Say
    /\ IF Nudge(said')
       THEN /\ seen' = FALSE /\ lost' = FALSE
            /\ \/ transcript' = transcript /\ nags' = nags + 1
               \/ Writes("hook", "hedged")
       ELSE UNCHANGED <<transcript, seen, lost, nags>>
    /\ UNCHANGED turn

(* The hook dies after it has recorded its step and before it has answered. *)
Untold ==
    /\ Lose
    /\ lost' = (lost \/ \E o \in owed : Nudge(o.answer))
    /\ UNCHANGED <<transcript, turn, seen, nags>>

CNext == Prompt \/ Reply \/ PromptHook \/ StopHook \/ HookDies \/ Told \/ Untold

CSpec == CInit /\ [][CNext]_all
-----------------------------------------------------------------------------
(* A prompt is answered by a nudge exactly when a Stop hook saw a hedge that  *)
(* no nudge told has answered yet, through however many turns, other hooks    *)
(* and dead hooks in between, unless the answer that bore the nudge was lost; *)
(* without budget it is answered by saying so.  So a hedge is forgotten only  *)
(* with the death of the hook that had recorded its nudge and not yet told    *)
(* it, and none is held against the assistant twice.                          *)
NudgedWhenSeen ==
    [][PromptHook => \A o \in owed' :
          /\ Nudge(o.answer) => seen /\ ~lost
          /\ seen /\ ~lost => Nudge(o.answer) \/ o.answer.loud]_all

(* A hedge goes on raising nudges while the tail of the transcript shows it,  *)
(* and no longer: with nobody hedging after it, and the nudges themselves     *)
(* kept out of the transcript, the nagging ends within the window.            *)
NagsEnd == nags <= Window \div 2 + 1

(* A turn in which neither the user nor the assistant used hedging language   *)
(* leaves nothing to nudge about: what the nudge says ("last turn used        *)
(* hedging language") and what the second scenario of the example is called   *)
(* ("clean, verified turn -> silent").                                        *)
CleanTurnIsSilent ==
    [][StopHook /\ TextOf(Recent(transcript, 2)) = "plain" => record'.vars = record.vars]_all
=============================================================================
