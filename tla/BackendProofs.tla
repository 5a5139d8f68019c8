--------------------------- MODULE BackendProofs ---------------------------
(***************************************************************************)
(* Theorems about the parts of the backend.                                *)
(*                                                                         *)
(* VoiceData, for any number of sessions, turns, profiles and contents,    *)
(* and for any bounds.  Its three properties speak of different tables and *)
(* have an inductive invariant each.  What they share is that a turn goes  *)
(* one way: it leaves idle once, and what it began with (the session and   *)
(* the profile it read) never changes afterwards.                          *)
(*                                                                         *)
(* ToolRegistry, for any number of threads, providers and tools, and       *)
(* however often providers raise.  Its invariant says what the thread that *)
(* holds the lock has put in the registry so far.                          *)
(*                                                                         *)
(* StepPlanner, for any commands and any proposals of the model: the rules *)
(* make steps of a few forms only, and each form is accepted as it stands. *)
(*                                                                         *)
(* ApiRecords, for any calls and any number of items.  Every row of a call *)
(* is what a committed statement of its script wrote (or a task began      *)
(* with, or a failure left), what a committed statement wrote stands until *)
(* a later one replaces it, and an open transaction holds what its own     *)
(* statements have written.  The place of a statement in its script says   *)
(* the rest.                                                               *)
(***************************************************************************)
EXTENDS VoiceData, ToolRegistry, StepPlanner, ApiRecords, WellFoundedInduction, TLAPS

TurnStates ==
  {"idle", "heard", "asked", "answered", "remembered", "done", "refused", "failed", "dead"}

\* The turn has not been answered by the agents.
Unanswered == {"idle", "heard", "asked"}

Transcripts ==
  [status : {"processing", "completed", "waiting", "failed"},
   memory : {"not_candidate", "pending", "approved", "rejected"},
   fact : Remembered \cup {Nil}]

TurnRecords ==
  [pc : TurnStates, session : VoiceSessions \cup {Nil}, seen : Profiles,
   fact : Remembered \cup {Nil}]

\* Sessions, turns, transcripts, memories and decisions have their types.
TalkTypes ==
  /\ voice \in [VoiceSessions -> {"new", "open", "deleted"}]
  /\ profile \in Profiles
  /\ turn \in [Turns -> TurnRecords]
  /\ transcript \in [Turns -> Transcripts \cup {Nil}]
  /\ stored \subseteq [fact : Remembered \cup {Nil}, source : Turns]
  /\ decided \in [Turns -> SUBSET BOOLEAN]
  /\ cleared \subseteq Turns

AudioTypes ==
  /\ audio \in [Clips -> [file : BOOLEAN, row : {"none", "kept", "fresh", "expired"}]]
  /\ writing \in [Clips -> [pc : {"idle", "file", "row", "done", "dead"}, keep : BOOLEAN]]

\* A row is written once, after the file, and nothing of a clip is written while its row
\* is there for the clean-up to take.
AudioInv ==
  /\ AudioTypes
  /\ \A c \in Clips :
       /\ writing[c].pc = "row" => audio[c].file
       /\ audio[c].row # "none" => writing[c].pc \in {"done", "dead"}
  /\ PlayableAudioExists

\* A transcript that is there belongs to a session that is there, and one that was cleared
\* belongs to a session that is gone for good.
ClearedInv ==
  /\ TalkTypes
  /\ \A t \in Turns :
       transcript[t] # Nil => turn[t].pc # "idle" /\ turn[t].session \in Live
  /\ \A t \in cleared :
       /\ transcript[t] = Nil
       /\ turn[t].pc # "idle"
       /\ turn[t].session \in VoiceSessions /\ voice[turn[t].session] = "deleted"

\* What a transcript says of its memory agrees with what the user decided, and both come
\* after the agents' answer.
DecisionInv ==
  /\ TalkTypes
  /\ \A t \in Turns :
       /\ transcript[t] # Nil /\ transcript[t].memory = "pending" => decided[t] = {}
       /\ transcript[t] # Nil /\ transcript[t].memory = "approved" /\ turn[t].seen.approval
            => decided[t] = {TRUE}
       /\ transcript[t] # Nil /\ transcript[t].memory # "not_candidate"
            => turn[t].pc \notin Unanswered
       /\ decided[t] # {} => turn[t].pc \notin Unanswered
       /\ turn[t].pc = "remembered" => ~turn[t].seen.approval
  /\ \A m \in stored : turn[m.source].pc \notin Unanswered
  /\ MemoryIsConsented

-----------------------------------------------------------------------------
(* Audio *)

LEMMA PersistingKeepsAudio ==
  ASSUME VoiceDataAssumption, profile \in Profiles, AudioInv,
         NEW c \in Clips, NEW s \in VoiceSessions, Persisting(c, s), UNCHANGED audio
  PROVE  AudioInv'
<1>1. writing' \in [Clips -> [pc : {"idle", "file", "row", "done", "dead"}, keep : BOOLEAN]]
  BY DEF AudioInv, AudioTypes, Persisting, VoiceDataAssumption
<1>2. /\ writing[c].pc = "idle"
      /\ writing'[c].pc = "file"
      /\ \A d \in Clips \ {c} : writing'[d] = writing[d]
  BY DEF AudioInv, AudioTypes, Persisting
<1>3. QED
  BY <1>1, <1>2 DEF AudioInv, AudioTypes, PlayableAudioExists

LEMMA AudioKept ==
  ASSUME VoiceDataAssumption, profile \in Profiles, AudioInv, [VoiceDataNext]_vdvars
  PROVE  AudioInv'
<1>1. ASSUME NEW c \in Clips, PersistFile(c) PROVE AudioInv'
  BY <1>1, ZenonT(60) DEF AudioInv, AudioTypes, PlayableAudioExists, PersistFile, Step
<1>2. ASSUME NEW c \in Clips, PersistRow(c) PROVE AudioInv'
  BY <1>2 DEF AudioInv, AudioTypes, PlayableAudioExists, PersistRow, Step
<1>3. ASSUME NEW c \in Clips, Expires(c) PROVE AudioInv'
  BY <1>3 DEF AudioInv, AudioTypes, PlayableAudioExists, Expires
<1>4. ASSUME NEW c \in Clips, CleanFile(c) PROVE AudioInv'
  BY <1>4, ZenonT(60) DEF AudioInv, AudioTypes, PlayableAudioExists, CleanFile
<1>5. ASSUME NEW c \in Clips, CleanRow(c) PROVE AudioInv'
  BY <1>5 DEF AudioInv, AudioTypes, PlayableAudioExists, CleanRow
<1>6. CASE ClearVoiceData
  <2>1. writing' = writing /\ audio' = [c \in Clips |-> [audio[c] EXCEPT !.row = "none"]]
    BY <1>6 DEF ClearVoiceData
  <2>2. AudioTypes'
    BY <2>1 DEF AudioInv, AudioTypes
  <2>3. \A c \in Clips : audio'[c].row = "none" /\ audio'[c].file = audio[c].file
    BY <2>1 DEF AudioInv, AudioTypes
  <2>4. QED
    BY <2>1, <2>2, <2>3 DEF AudioInv, PlayableAudioExists
<1>7. ASSUME NEW t \in Turns, NEW s \in VoiceSessions, NEW uploaded \in BOOLEAN,
             Listen(t, s, uploaded)
      PROVE  AudioInv'
  <2>1. CASE uploaded /\ profile.save
    <3>1. <<t, "input">> \in Clips
      BY DEF Clips
    <3>2. QED
      BY <1>7, <2>1, <3>1, PersistingKeepsAudio DEF Listen
  <2>2. CASE ~(uploaded /\ profile.save)
    BY <1>7, <2>2 DEF Listen, AudioInv, AudioTypes, PlayableAudioExists
  <2>3. QED
    BY <2>1, <2>2
<1>8. ASSUME NEW t \in Turns, SpeakAnswer(t) PROVE AudioInv'
  <2>1. <<t, "output">> \in Clips
    BY DEF Clips
  <2>2. turn[t].session \in VoiceSessions
    BY <1>8 DEF SpeakAnswer, Persisting, Live
  <2>3. QED
    BY <1>8, <2>1, <2>2, PersistingKeepsAudio DEF SpeakAnswer
<1>9. ASSUME NEW t \in Turns, TurnDies(t) PROVE AudioInv'
  BY <1>9 DEF AudioInv, AudioTypes, PlayableAudioExists, TurnDies
<1>10. CASE UNCHANGED <<audio, writing>>
  BY <1>10 DEF AudioInv, AudioTypes, PlayableAudioExists
<1>11. CASE \E t \in Turns :
              \/ \E n \in Lengths, near, typed \in BOOLEAN : Transcribe(t, n, near, typed)
              \/ \E fact \in Remembered \cup {Nil} : AgentReplied(t, fact)
              \/ RememberUnasked(t) \/ NotTranscribed(t) \/ AgentBroke(t) \/ MarkRemembered(t)
              \/ AnswerTurn(t) \/ Ages(t) \/ \E approve \in BOOLEAN : Decide(t, approve)
  <2>1. PICK t \in Turns :
              \/ \E n \in Lengths, near, typed \in BOOLEAN : Transcribe(t, n, near, typed)
              \/ \E fact \in Remembered \cup {Nil} : AgentReplied(t, fact)
              \/ RememberUnasked(t) \/ NotTranscribed(t) \/ AgentBroke(t) \/ MarkRemembered(t)
              \/ AnswerTurn(t) \/ Ages(t) \/ \E approve \in BOOLEAN : Decide(t, approve)
    BY <1>11
  <2>2. ASSUME NEW n, NEW near, NEW typed, Transcribe(t, n, near, typed)
        PROVE  UNCHANGED <<audio, writing>>
    BY <2>2 DEF Transcribe
  <2>3. ASSUME NEW fact, AgentReplied(t, fact)
        PROVE  UNCHANGED <<audio, writing>>
    BY <2>3 DEF AgentReplied
  <2>4. ASSUME NEW approve, Decide(t, approve)
        PROVE  UNCHANGED <<audio, writing>>
    BY <2>4 DEF Decide
  <2>5. CASE RememberUnasked(t) \/ NotTranscribed(t) \/ AgentBroke(t) \/ MarkRemembered(t)
    BY <1>10, <2>5 DEF RememberUnasked, NotTranscribed, AgentBroke, MarkRemembered
  <2>6. CASE AnswerTurn(t) \/ Ages(t)
    BY <1>10, <2>6 DEF AnswerTurn, Ages
  <2>7. QED
    BY <1>10, <2>1, <2>2, <2>3, <2>4, <2>5, <2>6
<1>12. CASE \/ \E n \in Lengths : Enroll(n)
            \/ ClearSpeaker \/ EnforceRetention \/ CleanerDies
            \/ \E s \in VoiceSessions : OpenSession(s)
            \/ \E m \in stored : DeleteMemory(m)
            \/ \E p \in Profiles : UpdateProfile(p)
            \/ UNCHANGED vdvars
  <2>1. UNCHANGED <<audio, writing>>
    BY <1>12 DEF Enroll, ClearSpeaker, EnforceRetention, CleanerDies, OpenSession, DeleteMemory,
                 UpdateProfile, vdvars
  <2>2. QED
    BY <1>10, <2>1
<1>13. QED
  BY <1>1, <1>2, <1>3, <1>4, <1>5, <1>6, <1>7, <1>8, <1>9, <1>11, <1>12 DEF VoiceDataNext

-----------------------------------------------------------------------------
(* Turns, transcripts and memories *)

TalkInv == ClearedInv /\ DecisionInv

LEMMA TurnMoves ==
  ASSUME TalkTypes, NEW t \in Turns, NEW pc \in TurnStates, To(t, pc)
  PROVE  /\ turn' \in [Turns -> TurnRecords]
         /\ turn'[t].pc = pc
         /\ \A u \in Turns : /\ turn'[u].session = turn[u].session
                             /\ turn'[u].seen = turn[u].seen
         /\ \A u \in Turns \ {t} : turn'[u].pc = turn[u].pc
  BY DEF TalkTypes, TurnRecords, To

LEMMA TranscriptColumns ==
  ASSUME NEW r \in Transcripts
  PROVE  /\ \A v \in {"processing", "completed", "waiting", "failed"} :
              /\ [r EXCEPT !.status = v] \in Transcripts
              /\ [r EXCEPT !.status = v].memory = r.memory
         /\ \A v \in {"not_candidate", "pending", "approved", "rejected"} :
              /\ [r EXCEPT !.memory = v] \in Transcripts
              /\ [r EXCEPT !.memory = v].memory = v
  BY DEF Transcripts

\* A turn that only moves on, past its answer, disturbs nothing.
LEMMA MovingOnKeeps ==
  ASSUME TalkInv, NEW t \in Turns, NEW pc \in TurnStates \ {"idle", "heard", "asked", "remembered"},
         To(t, pc), UNCHANGED <<voice, profile, transcript, stored, decided, cleared>>
  PROVE  TalkInv'
<1>1. /\ turn' \in [Turns -> TurnRecords]
      /\ turn'[t].pc = pc
      /\ \A u \in Turns : turn'[u].session = turn[u].session /\ turn'[u].seen = turn[u].seen
      /\ \A u \in Turns \ {t} : turn'[u].pc = turn[u].pc
  BY TurnMoves DEF TalkInv, ClearedInv
<1>2. TalkTypes'
  BY <1>1 DEF TalkInv, ClearedInv, TalkTypes
<1>3. ClearedInv'
  BY <1>1, <1>2 DEF TalkInv, ClearedInv, Live, TalkTypes
<1>4. stored \subseteq [fact : Remembered \cup {Nil}, source : Turns]
  BY DEF TalkInv, ClearedInv, TalkTypes
<1>5. DecisionInv'
  BY <1>1, <1>2, <1>4 DEF TalkInv, DecisionInv, MemoryIsConsented, Unanswered
<1>6. QED
  BY <1>3, <1>5 DEF TalkInv

\* Deleted transcripts, and nothing else: retention.
LEMMA RetentionKeeps ==
  ASSUME TalkInv, EnforceRetention
  PROVE  TalkInv'
<1>1. \A t \in Turns : transcript'[t] \in {Nil, transcript[t]}
  BY DEF EnforceRetention
<1>2. TalkTypes'
  BY DEF TalkInv, ClearedInv, TalkTypes, EnforceRetention
<1>3. ClearedInv'
  BY <1>1, <1>2 DEF TalkInv, ClearedInv, Live, EnforceRetention, TalkTypes
<1>4. DecisionInv'
  BY <1>1, <1>2 DEF TalkInv, DecisionInv, MemoryIsConsented, EnforceRetention
<1>5. QED
  BY <1>3, <1>4 DEF TalkInv

LEMMA ClearingKeeps ==
  ASSUME TalkInv, ClearVoiceData
  PROVE  TalkInv'
<1>1. TalkTypes'
  BY DEF TalkInv, ClearedInv, TalkTypes, ClearVoiceData, Live
<1>2. ClearedInv'
  BY <1>1 DEF TalkInv, ClearedInv, Live, ClearVoiceData, TalkTypes, TurnRecords
<1>3. DecisionInv'
  BY <1>1 DEF TalkInv, DecisionInv, MemoryIsConsented, ClearVoiceData
<1>4. QED
  BY <1>2, <1>3 DEF TalkInv

LEMMA OpeningKeeps ==
  ASSUME TalkInv, NEW s \in VoiceSessions, OpenSession(s)
  PROVE  TalkInv'
<1>1. TalkTypes'
  BY DEF TalkInv, ClearedInv, TalkTypes, OpenSession
<1>2. ClearedInv'
  BY <1>1 DEF TalkInv, ClearedInv, Live, OpenSession, TalkTypes, TurnRecords
<1>3. DecisionInv'
  BY <1>1 DEF TalkInv, DecisionInv, MemoryIsConsented, OpenSession
<1>4. QED
  BY <1>2, <1>3 DEF TalkInv

LEMMA ListeningKeeps ==
  ASSUME TalkInv, NEW t \in Turns, NEW s \in VoiceSessions, NEW uploaded \in BOOLEAN,
         Listen(t, s, uploaded)
  PROVE  TalkInv'
<1> DEFINE q == [pc |-> "heard", session |-> s, seen |-> profile, fact |-> Nil]
<1>1. /\ turn' = [turn EXCEPT ![t] = q]
      /\ turn[t].pc = "idle"
      /\ UNCHANGED <<voice, profile, transcript, stored, decided, cleared>>
  BY DEF Listen
<1>2. q \in TurnRecords
  BY DEF TurnRecords, TurnStates, TalkInv, ClearedInv, TalkTypes
<1>3. TalkTypes'
  BY <1>1, <1>2 DEF TalkInv, ClearedInv, TalkTypes
<1>4. /\ turn'[t] = q
      /\ \A u \in Turns \ {t} : turn'[u] = turn[u]
  BY <1>1 DEF TalkInv, ClearedInv, TalkTypes
<1>5. transcript[t] = Nil /\ t \notin cleared /\ decided[t] = {} /\ \A m \in stored : m.source # t
  BY <1>1 DEF TalkInv, ClearedInv, DecisionInv, Unanswered
<1>6. ClearedInv'
  BY <1>1, <1>3, <1>4, <1>5 DEF TalkInv, ClearedInv, Live, TalkTypes
<1>7. stored \subseteq [fact : Remembered \cup {Nil}, source : Turns]
  BY DEF TalkInv, ClearedInv, TalkTypes
<1>8. DecisionInv'
  <2>1. \A m \in stored' : m.source \in Turns \ {t} /\ turn'[m.source] = turn[m.source]
    BY <1>1, <1>4, <1>5, <1>7
  <2>2. MemoryIsConsented' /\ \A m \in stored' : turn'[m.source].pc \notin Unanswered
    BY <1>1, <2>1 DEF TalkInv, DecisionInv, MemoryIsConsented
  <2>3. ASSUME NEW u \in Turns \ {t}
        PROVE  turn'[u] = turn[u] /\ transcript'[u] = transcript[u] /\ decided'[u] = decided[u]
    BY <1>1, <1>4
  <2>4. turn'[t].pc # "remembered" /\ transcript'[t] = Nil /\ decided'[t] = {}
    BY <1>1, <1>4, <1>5
  <2>5. QED
    BY <1>3, <2>2, <2>3, <2>4 DEF TalkInv, DecisionInv
<1>9. QED
  BY <1>6, <1>8 DEF TalkInv

\* A turn that leaves its start without a transcript, or fails.
LEMMA EndingKeeps ==
  ASSUME TalkInv, NEW t \in Turns, NEW pc \in {"refused", "failed", "dead", "done"},
         To(t, pc), UNCHANGED <<voice, profile, transcript, stored, decided, cleared>>
  PROVE  TalkInv'
  BY MovingOnKeeps DEF TurnStates

LEMMA TranscribingKeeps ==
  ASSUME TalkInv, NEW t \in Turns, NEW n, NEW near, NEW typed, Transcribe(t, n, near, typed)
  PROVE  TalkInv'
<1>1. CASE \E pc \in {"refused", "failed"} : To(t, pc) /\ transcript' = transcript
  BY <1>1, EndingKeeps DEF Transcribe
<1>2. CASE /\ turn[t].session \in Live
           /\ To(t, "asked") /\ transcript' = [transcript EXCEPT ![t] = Begun]
  <2>1. turn[t].pc = "heard" /\ UNCHANGED <<voice, profile, stored, decided, cleared>>
    BY DEF Transcribe
  <2>2. /\ turn' \in [Turns -> TurnRecords]
        /\ turn'[t].pc = "asked"
        /\ \A u \in Turns : turn'[u].session = turn[u].session /\ turn'[u].seen = turn[u].seen
        /\ \A u \in Turns \ {t} : turn'[u].pc = turn[u].pc
    BY <1>2, TurnMoves DEF TalkInv, ClearedInv, TurnStates
  <2>3. Begun \in Transcripts /\ Begun.memory = "not_candidate"
    BY DEF Begun, Transcripts
  <2>4. /\ transcript' \in [Turns -> Transcripts \cup {Nil}]
        /\ transcript'[t] = Begun
        /\ \A u \in Turns \ {t} : transcript'[u] = transcript[u]
    BY <1>2, <2>3 DEF TalkInv, ClearedInv, TalkTypes
  <2>5. TalkTypes'
    BY <2>1, <2>2, <2>4 DEF TalkInv, ClearedInv, TalkTypes
  <2>6. decided[t] = {} /\ t \notin cleared /\ \A m \in stored : m.source # t
    BY <1>2, <2>1 DEF TalkInv, DecisionInv, ClearedInv, Unanswered, Live
  <2>7. ClearedInv'
    BY <1>2, <2>1, <2>2, <2>4, <2>5, <2>6 DEF TalkInv, ClearedInv, Live, TalkTypes
  <2>8. stored \subseteq [fact : Remembered \cup {Nil}, source : Turns]
    BY DEF TalkInv, ClearedInv, TalkTypes
  <2>9. MemoryIsConsented' /\ \A m \in stored' : turn'[m.source].pc \notin Unanswered
    BY <2>1, <2>2, <2>6, <2>8 DEF TalkInv, DecisionInv, MemoryIsConsented
  <2>10. ASSUME NEW u \in Turns \ {t}
         PROVE  /\ turn'[u].pc = turn[u].pc /\ turn'[u].seen = turn[u].seen
                /\ transcript'[u] = transcript[u] /\ decided'[u] = decided[u]
    BY <2>1, <2>2, <2>4
  <2>11. turn'[t].pc # "remembered" /\ transcript'[t].memory = "not_candidate" /\ decided'[t] = {}
    BY <2>1, <2>2, <2>3, <2>4, <2>6
  <2>12. DecisionInv'
    BY <2>5, <2>9, <2>10, <2>11, ZenonT(60) DEF TalkInv, DecisionInv
  <2>13. QED
    BY <2>7, <2>12 DEF TalkInv
<1>3. QED
  BY <1>1, <1>2 DEF Transcribe

LEMMA ReplyingKeeps ==
  ASSUME TalkInv, NEW t \in Turns, NEW fact \in Remembered \cup {Nil}, AgentReplied(t, fact)
  PROVE  TalkInv'
<1> DEFINE row == [status |-> IF fact = Nil THEN "completed" ELSE "waiting",
                   memory |-> IF fact = Nil THEN "not_candidate" ELSE "pending", fact |-> fact]
           named == turn[t].session \in Live
<1>1. /\ turn[t].pc = "asked"
      /\ Resaved(t, row)
      /\ UNCHANGED <<voice, profile, stored, decided, cleared>>
  BY DEF AgentReplied
<1>2. row \in Transcripts /\ row.memory \in {"not_candidate", "pending"} /\ row.fact = fact
  BY DEF Transcripts
<1> HIDE DEF row
<1>3. /\ turn' \in [Turns -> TurnRecords]
      /\ turn'[t].pc \in {"answered", "failed"}
      /\ \A u \in Turns : turn'[u].session = turn[u].session /\ turn'[u].seen = turn[u].seen
      /\ \A u \in Turns \ {t} : turn'[u] = turn[u]
  <2> DEFINE pc == IF named THEN "answered" ELSE "failed"
             g == [turn EXCEPT ![t].pc = pc]
  <2>1. /\ g \in [Turns -> TurnRecords]
        /\ g[t].pc \in {"answered", "failed"} /\ g[t].session = turn[t].session /\ g[t].seen = turn[t].seen
        /\ \A u \in Turns \ {t} : g[u] = turn[u]
    BY DEF TalkInv, ClearedInv, TalkTypes, TurnRecords, TurnStates
  <2>2. turn' = [g EXCEPT ![t].fact = fact]
    BY <1>1, <1>2 DEF Resaved
  <2> HIDE DEF g
  <2>3. QED
    BY <2>1, <2>2 DEF TurnRecords
<1>4. /\ transcript' \in [Turns -> Transcripts \cup {Nil}]
      /\ transcript'[t] \in {transcript[t], row}
      /\ transcript'[t] # transcript[t] => named
      /\ \A u \in Turns \ {t} : transcript'[u] = transcript[u]
  BY <1>1, <1>2 DEF Resaved, TalkInv, ClearedInv, TalkTypes
<1>5. TalkTypes'
  BY <1>1, <1>3, <1>4 DEF TalkInv, ClearedInv, TalkTypes
<1>6. decided[t] = {} /\ \A m \in stored : m.source # t
  BY <1>1 DEF TalkInv, DecisionInv, Unanswered
<1>7. ClearedInv'
  <2>1. ASSUME NEW u \in Turns, transcript'[u] # Nil
        PROVE  turn'[u].pc # "idle" /\ turn'[u].session \in Live'
    BY <1>1, <1>3, <1>4, <2>1 DEF TalkInv, ClearedInv, Live, TalkTypes
  <2>2. ASSUME NEW u \in cleared'
        PROVE  /\ transcript'[u] = Nil /\ turn'[u].pc # "idle"
               /\ turn'[u].session \in VoiceSessions /\ voice'[turn'[u].session] = "deleted"
    BY <1>1, <1>3, <1>4, <2>2 DEF TalkInv, ClearedInv, Live, TalkTypes
  <2>3. QED
    BY <1>5, <2>1, <2>2 DEF ClearedInv
<1>8. stored \subseteq [fact : Remembered \cup {Nil}, source : Turns]
  BY DEF TalkInv, ClearedInv, TalkTypes
<1>9. MemoryIsConsented' /\ \A m \in stored' : turn'[m.source].pc \notin Unanswered
  BY <1>1, <1>3, <1>6, <1>8, ZenonT(60) DEF TalkInv, DecisionInv, MemoryIsConsented
<1>10. DecisionInv'
  <2>1. ASSUME NEW u \in Turns \ {t}
        PROVE  turn'[u] = turn[u] /\ transcript'[u] = transcript[u] /\ decided'[u] = decided[u]
    BY <1>1, <1>3, <1>4
  <2>2. /\ turn'[t].pc \notin Unanswered /\ turn'[t].pc # "remembered"
        /\ transcript'[t] # Nil => transcript'[t].memory # "approved"
        /\ decided'[t] = {}
    BY <1>1, <1>2, <1>3, <1>4, <1>6 DEF TalkInv, DecisionInv, Unanswered
  <2>3. QED
    BY <1>5, <1>9, <2>1, <2>2 DEF TalkInv, DecisionInv
<1>11. QED
  BY <1>7, <1>10 DEF TalkInv

LEMMA RememberingKeeps ==
  ASSUME TalkInv, NEW t \in Turns, RememberUnasked(t)
  PROVE  TalkInv'
<1>1. /\ turn[t].pc = "answered" /\ ~turn[t].seen.approval /\ turn[t].fact \in Remembered \cup {Nil}
      /\ To(t, "remembered")
      /\ UNCHANGED <<voice, profile, transcript, decided, cleared>>
  BY DEF RememberUnasked, TalkInv, ClearedInv, TalkTypes, TurnRecords
<1>2. /\ turn' \in [Turns -> TurnRecords]
      /\ turn'[t].pc = "remembered"
      /\ \A u \in Turns : turn'[u].session = turn[u].session /\ turn'[u].seen = turn[u].seen
      /\ \A u \in Turns \ {t} : turn'[u].pc = turn[u].pc
  BY <1>1, TurnMoves DEF TalkInv, ClearedInv, TurnStates
<1>3. /\ \A m \in stored' : m \in stored \/ m.source = t
      /\ stored \subseteq [fact : Remembered \cup {Nil}, source : Turns]
      /\ stored' \subseteq [fact : Remembered \cup {Nil}, source : Turns]
  BY <1>1 DEF RememberUnasked, Keep, TalkInv, ClearedInv, TalkTypes
<1>4. TalkTypes'
  BY <1>1, <1>2, <1>3 DEF TalkInv, ClearedInv, TalkTypes
<1>5. ClearedInv'
  BY <1>1, <1>2, <1>4 DEF TalkInv, ClearedInv, Live, TalkTypes
<1>6. ASSUME NEW m \in stored'
      PROVE  /\ turn'[m.source].pc \notin Unanswered
             /\ turn'[m.source].seen.approval => decided'[m.source] = {TRUE}
  <2>1. CASE m \in stored
    BY <1>1, <1>2, <1>3, <2>1 DEF TalkInv, DecisionInv, MemoryIsConsented, Unanswered
  <2>2. CASE m.source = t
    BY <1>1, <1>2, <2>2 DEF Unanswered
  <2>3. QED
    BY <1>3, <2>1, <2>2
<1>7. ASSUME NEW u \in Turns \ {t}
      PROVE  turn'[u].pc = turn[u].pc /\ turn'[u].seen = turn[u].seen
    BY <1>2
<1>8. turn'[t].pc \notin Unanswered /\ ~turn'[t].seen.approval
  BY <1>1, <1>2 DEF Unanswered
<1>9. DecisionInv'
  BY <1>1, <1>4, <1>6, <1>7, <1>8 DEF TalkInv, DecisionInv, MemoryIsConsented
<1>10. QED
  BY <1>5, <1>9 DEF TalkInv

\* A turn changes a column of its own transcript, if the row is still there, and moves on.
LEMMA ColumnKeeps ==
  ASSUME TalkInv, NEW t \in Turns, NEW pc \in {"failed", "done"}, To(t, pc),
         turn[t].pc # "idle",
         NEW r \in Transcripts, transcript[t] # Nil,
         transcript' = [transcript EXCEPT ![t] = r],
         r.memory = "pending" => decided[t] = {},
         r.memory = "approved" /\ turn[t].seen.approval => decided[t] = {TRUE},
         UNCHANGED <<voice, profile, stored, decided, cleared>>
  PROVE  TalkInv'
<1>1. /\ turn' \in [Turns -> TurnRecords]
      /\ turn'[t].pc = pc
      /\ \A u \in Turns : turn'[u].session = turn[u].session /\ turn'[u].seen = turn[u].seen
      /\ \A u \in Turns \ {t} : turn'[u].pc = turn[u].pc
  BY TurnMoves DEF TalkInv, ClearedInv, TurnStates
<1>2. /\ transcript' \in [Turns -> Transcripts \cup {Nil}]
      /\ transcript'[t] = r
      /\ \A u \in Turns \ {t} : transcript'[u] = transcript[u]
  BY DEF TalkInv, ClearedInv, TalkTypes
<1>3. TalkTypes'
  BY <1>1, <1>2 DEF TalkInv, ClearedInv, TalkTypes
<1>4. ClearedInv'
  <2>1. t \notin cleared /\ turn[t].session \in Live
    BY DEF TalkInv, ClearedInv
  <2>2. QED
    BY <1>1, <1>2, <1>3, <2>1 DEF TalkInv, ClearedInv, Live, TalkTypes
<1>5. ASSUME NEW u \in Turns \ {t}
      PROVE  /\ turn'[u].pc = turn[u].pc /\ turn'[u].seen = turn[u].seen
             /\ transcript'[u] = transcript[u] /\ decided'[u] = decided[u]
  BY <1>1, <1>2
<1>6. /\ turn'[t].pc \notin Unanswered /\ turn'[t].pc # "remembered"
      /\ turn'[t].seen = turn[t].seen
  BY <1>1 DEF Unanswered
<1>7. stored \subseteq [fact : Remembered \cup {Nil}, source : Turns]
  BY DEF TalkInv, ClearedInv, TalkTypes
<1>8. MemoryIsConsented' /\ \A m \in stored' : turn'[m.source].pc \notin Unanswered
  BY <1>1, <1>6, <1>7 DEF TalkInv, DecisionInv, MemoryIsConsented
<1>9. DecisionInv'
  BY <1>2, <1>3, <1>5, <1>6, <1>8, ZenonT(60) DEF TalkInv, DecisionInv
<1>10. QED
  BY <1>4, <1>9 DEF TalkInv

LEMMA BreakingKeeps ==
  ASSUME TalkInv, NEW t \in Turns, AgentBroke(t)
  PROVE  TalkInv'
<1>1. /\ turn[t].pc = "asked" /\ To(t, "failed")
      /\ UNCHANGED <<voice, profile, stored, decided, cleared>>
  BY DEF AgentBroke
<1>2. CASE transcript[t] = Nil
  BY <1>1, <1>2, EndingKeeps DEF AgentBroke
<1>3. CASE transcript[t] # Nil
  <2> DEFINE r == [transcript[t] EXCEPT !.status = "failed"]
  <2>1. r \in Transcripts /\ r.memory = transcript[t].memory
    BY <1>3, TranscriptColumns DEF TalkInv, ClearedInv, TalkTypes
  <2>2. transcript' = [transcript EXCEPT ![t] = r]
    BY <1>3 DEF AgentBroke
  <2>3. /\ r.memory = "pending" => decided[t] = {}
        /\ r.memory = "approved" /\ turn[t].seen.approval => decided[t] = {TRUE}
    BY <1>3, <2>1 DEF TalkInv, DecisionInv
  <2> HIDE DEF r
  <2>4. QED
    BY <1>1, <1>3, <2>1, <2>2, <2>3, ColumnKeeps
<1>4. QED
  BY <1>2, <1>3

LEMMA MarkingKeeps ==
  ASSUME TalkInv, NEW t \in Turns, MarkRemembered(t)
  PROVE  TalkInv'
<1>1. /\ turn[t].pc = "remembered"
      /\ UNCHANGED <<voice, profile, stored, decided, cleared>>
  BY DEF MarkRemembered
<1>2. CASE transcript[t] = Nil
  BY <1>1, <1>2, EndingKeeps DEF MarkRemembered
<1>3. CASE transcript[t] # Nil
  <2> DEFINE r == [transcript[t] EXCEPT !.memory = "approved"]
  <2>1. r \in Transcripts /\ r.memory = "approved"
    BY <1>3, TranscriptColumns, ZenonT(60) DEF TalkInv, ClearedInv, TalkTypes
  <2>2. transcript' = [transcript EXCEPT ![t] = r] /\ To(t, "done")
    BY <1>3 DEF MarkRemembered
  <2>3. ~turn[t].seen.approval
    BY <1>1 DEF TalkInv, DecisionInv
  <2> HIDE DEF r
  <2>4. QED
    BY <1>1, <1>3, <2>1, <2>2, <2>3, ColumnKeeps
<1>4. QED
  BY <1>2, <1>3

LEMMA DecidingKeeps ==
  ASSUME TalkInv, NEW t \in Turns, NEW approve \in BOOLEAN, Decide(t, approve)
  PROVE  TalkInv'
<1> DEFINE v == IF approve THEN "approved" ELSE "rejected"
           r == [transcript[t] EXCEPT !.memory = v]
<1>1. /\ transcript[t] \in Transcripts /\ transcript[t] # Nil
      /\ transcript[t].memory \in {"pending", "approved"}
      /\ transcript[t].memory = "approved" => approve
      /\ turn[t].pc \notin Unanswered
      /\ t \notin cleared
      /\ UNCHANGED <<voice, profile, turn, cleared>>
  BY DEF Decide, Decidable, TalkInv, ClearedInv, DecisionInv, TalkTypes
<1>2. r \in Transcripts /\ r.memory = v
  <2>1. v \in {"not_candidate", "pending", "approved", "rejected"}
    OBVIOUS
  <2> HIDE DEF v
  <2>2. QED
    BY <1>1, <2>1, TranscriptColumns
<1>3. transcript' = [transcript EXCEPT ![t] = r]
  BY DEF Decide
<1> HIDE DEF r
<1>4. /\ transcript' \in [Turns -> Transcripts \cup {Nil}]
      /\ transcript'[t] = r
      /\ \A u \in Turns \ {t} : transcript'[u] = transcript[u]
  BY <1>2, <1>3 DEF TalkInv, ClearedInv, TalkTypes
<1>5. /\ decided' \in [Turns -> SUBSET BOOLEAN]
      /\ decided'[t] = decided[t] \cup {approve}
      /\ \A u \in Turns \ {t} : decided'[u] = decided[u]
  BY DEF Decide, TalkInv, ClearedInv, TalkTypes
<1>6. /\ \A m \in stored' : m \in stored \/ (approve /\ m.source = t)
      /\ stored \subseteq [fact : Remembered \cup {Nil}, source : Turns]
      /\ stored' \subseteq [fact : Remembered \cup {Nil}, source : Turns]
  BY <1>1 DEF Decide, Keep, TalkInv, ClearedInv, TalkTypes, Transcripts
<1>7. TalkTypes'
  BY <1>1, <1>4, <1>5, <1>6 DEF TalkInv, ClearedInv, TalkTypes
<1>8. ClearedInv'
  <2>1. turn[t].pc # "idle" /\ turn[t].session \in Live
    BY <1>1 DEF TalkInv, ClearedInv
  <2>2. \A u \in Turns : transcript'[u] # Nil => turn[u].pc # "idle" /\ turn[u].session \in Live
    BY <1>4, <2>1 DEF TalkInv, ClearedInv
  <2>3. \A u \in cleared : transcript'[u] = transcript[u]
    BY <1>1, <1>4 DEF TalkInv, ClearedInv, TalkTypes
  <2>4. QED
    BY <1>1, <1>7, <2>2, <2>3 DEF TalkInv, ClearedInv, Live
<1>9. turn[t].seen.approval => decided[t] \subseteq {TRUE} /\ (decided[t] = {TRUE} => approve)
  BY <1>1 DEF TalkInv, DecisionInv
<1>10. ASSUME turn[t].seen.approval, approve PROVE decided'[t] = {TRUE}
  BY <1>5, <1>9, <1>10
<1>11. ASSUME turn[t].seen.approval, ~approve PROVE decided[t] # {TRUE}
  BY <1>9, <1>11
<1>12. ASSUME NEW m \in stored'
       PROVE  /\ turn'[m.source].pc \notin Unanswered
              /\ turn'[m.source].seen.approval => decided'[m.source] = {TRUE}
  <2>1. CASE m.source = t /\ approve
    BY <1>1, <1>10, <2>1
  <2>2. CASE m.source = t /\ ~approve
    BY <1>1, <1>6, <1>11, <2>2 DEF TalkInv, DecisionInv, MemoryIsConsented
  <2>3. CASE m.source # t
    <3>1. m \in stored /\ m.source \in Turns \ {t}
      BY <1>6, <2>3
    <3>2. decided'[m.source] = decided[m.source]
      BY <1>5, <3>1
    <3>3. QED
      BY <1>1, <3>1, <3>2 DEF TalkInv, DecisionInv, MemoryIsConsented
  <2>4. QED
    BY <2>1, <2>2, <2>3
<1>13. ASSUME NEW u \in Turns \ {t}
       PROVE  transcript'[u] = transcript[u] /\ decided'[u] = decided[u]
  BY <1>4, <1>5
<1>14. /\ transcript'[t].memory # "pending"
       /\ transcript'[t].memory = "approved" /\ turn'[t].seen.approval => decided'[t] = {TRUE}
  BY <1>1, <1>2, <1>4, <1>10
<1>15. DecisionInv'
  BY <1>1, <1>7, <1>12, <1>13, <1>14 DEF TalkInv, DecisionInv, MemoryIsConsented
<1>16. QED
  BY <1>8, <1>15 DEF TalkInv

\* A step that touches none of the tables of this part, but perhaps the memories to delete
\* one, or the settings.
LEMMA ElsewhereKeeps ==
  ASSUME TalkInv, UNCHANGED <<voice, transcript, turn, decided, cleared>>,
         profile' \in Profiles, stored' \subseteq stored
  PROVE  TalkInv'
<1>1. TalkTypes'
  BY DEF TalkInv, ClearedInv, TalkTypes
<1>2. ClearedInv'
  BY <1>1 DEF TalkInv, ClearedInv, Live
<1>3. DecisionInv'
  BY <1>1 DEF TalkInv, DecisionInv, MemoryIsConsented
<1>4. QED
  BY <1>2, <1>3 DEF TalkInv

LEMMA StartOfTurnKept ==
  ASSUME TalkInv, NEW t \in Turns,
         \/ \E s \in VoiceSessions, uploaded \in BOOLEAN : Listen(t, s, uploaded)
         \/ \E n \in Lengths, near, typed \in BOOLEAN : Transcribe(t, n, near, typed)
         \/ \E fact \in Remembered \cup {Nil} : AgentReplied(t, fact)
         \/ AgentBroke(t) \/ NotTranscribed(t)
  PROVE  TalkInv'
<1>1. ASSUME NotTranscribed(t) PROVE TalkInv'
  BY <1>1, EndingKeeps DEF NotTranscribed
<1>2. QED
  BY <1>1, ListeningKeeps, TranscribingKeeps, ReplyingKeeps, BreakingKeeps

LEMMA RestOfTurnKept ==
  ASSUME TalkInv, NEW t \in Turns,
         \/ RememberUnasked(t) \/ MarkRemembered(t) \/ AnswerTurn(t) \/ SpeakAnswer(t)
         \/ \E approve \in BOOLEAN : Decide(t, approve)
         \/ Ages(t) \/ TurnDies(t)
  PROVE  TalkInv'
<1>1. profile \in Profiles
  BY DEF TalkInv, ClearedInv, TalkTypes
<1>2. ASSUME AnswerTurn(t) PROVE TalkInv'
  BY <1>2, EndingKeeps DEF AnswerTurn
<1>3. ASSUME SpeakAnswer(t) PROVE TalkInv'
  BY <1>1, <1>3, ElsewhereKeeps DEF SpeakAnswer
<1>4. ASSUME Ages(t) PROVE TalkInv'
  BY <1>1, <1>4, ElsewhereKeeps DEF Ages
<1>5. ASSUME TurnDies(t) PROVE TalkInv'
  BY <1>5, EndingKeeps DEF TurnDies
<1>6. QED
  BY <1>2, <1>3, <1>4, <1>5, RememberingKeeps, MarkingKeeps, DecidingKeeps

LEMMA TalkKept ==
  ASSUME TalkInv, [VoiceDataNext]_vdvars
  PROVE  TalkInv'
<1>1. profile \in Profiles
  BY DEF TalkInv, ClearedInv, TalkTypes
<1>2. ASSUME NEW c \in Clips, PersistRow(c) PROVE TalkInv'
  <2>1. CASE turn' = turn
    BY <1>1, <1>2, <2>1, ElsewhereKeeps DEF PersistRow
  <2>2. CASE To(c[1], "failed")
    <3>1. c[1] \in Turns
      BY DEF Clips
    <3>2. QED
      BY <1>2, <2>2, <3>1, EndingKeeps DEF PersistRow
  <2>3. QED
    BY <1>2, <2>1, <2>2 DEF PersistRow, To
<1>3. ASSUME NEW c \in Clips, PersistFile(c) \/ Expires(c) \/ CleanFile(c) \/ CleanRow(c)
      PROVE  TalkInv'
  <2>1. UNCHANGED <<voice, profile, transcript, turn, stored, decided, cleared>>
    BY <1>3 DEF PersistFile, Expires, CleanFile, CleanRow
  <2>2. QED
    BY <1>1, <2>1, ElsewhereKeeps
<1>4. ASSUME NEW n, Enroll(n) PROVE TalkInv'
  BY <1>1, <1>4, ElsewhereKeeps DEF Enroll
<1>5. CASE ClearSpeaker \/ CleanerDies \/ UNCHANGED vdvars
  <2>1. UNCHANGED <<voice, profile, transcript, turn, stored, decided, cleared>>
    BY <1>5 DEF ClearSpeaker, CleanerDies, vdvars
  <2>2. QED
    BY <1>1, <2>1, ElsewhereKeeps
<1>6. ASSUME NEW m \in stored, DeleteMemory(m) PROVE TalkInv'
  BY <1>1, <1>6, ElsewhereKeeps DEF DeleteMemory
<1>7. ASSUME NEW p \in Profiles, UpdateProfile(p) PROVE TalkInv'
  BY <1>7, ElsewhereKeeps DEF UpdateProfile
<1>8. QED
  BY <1>2, <1>3, <1>4, <1>5, <1>6, <1>7, StartOfTurnKept, RestOfTurnKept, ClearingKeeps,
     RetentionKeeps, OpeningKeeps
     DEF VoiceDataNext

LEMMA InitIsGood ==
  ASSUME VoiceDataInit
  PROVE  AudioInv /\ TalkInv
<1>1. AudioInv
  BY DEF VoiceDataInit, AudioInv, AudioTypes, PlayableAudioExists, NoAudio
<1>2. TalkTypes
  BY DEF VoiceDataInit, TalkTypes, TurnRecords, TurnStates
<1>3. ClearedInv /\ DecisionInv
  BY <1>2 DEF VoiceDataInit, ClearedInv, DecisionInv, MemoryIsConsented
<1>4. QED
  BY <1>1, <1>3 DEF TalkInv

-----------------------------------------------------------------------------
(* Theorems *)

LEMMA TalkIsGood == VoiceDataSpec => []TalkInv
<1>1. VoiceDataInit => TalkInv
  BY InitIsGood
<1>2. TalkInv /\ [VoiceDataNext]_vdvars => TalkInv'
  BY TalkKept
<1>3. QED
  BY <1>1, <1>2, PTL DEF VoiceDataSpec

\* A memory made of what was said under a profile that asks for approval was approved and
\* never rejected, for any number of turns and whatever overlaps (ingest, memory_decision).
THEOREM MemoryNeedsConsent == VoiceDataSpec => []MemoryIsConsented
<1>1. TalkInv => MemoryIsConsented
  BY DEF TalkInv, DecisionInv
<1>2. QED
  BY <1>1, TalkIsGood, PTL

\* What "delete stored voice data" deleted no late save brings back (clear_voice_data).
THEOREM ClearingIsFinal == VoiceDataSpec => []ClearedStaysCleared
<1>1. TalkInv => ClearedStaysCleared
  BY DEF TalkInv, ClearedInv, ClearedStaysCleared
<1>2. QED
  BY <1>1, TalkIsGood, PTL

\* A row of audio that has not expired has its file (persist, cleanup_expired_audio_assets).
THEOREM AudioIsThere == VoiceDataSpec => []PlayableAudioExists
<1> DEFINE Inv == TalkInv /\ AudioInv
<1>1. VoiceDataInit => Inv
  BY InitIsGood
<1>2. Inv /\ [VoiceDataNext]_vdvars => Inv'
  BY TalkKept, AudioKept, VoiceDataAssumption DEF TalkInv, ClearedInv, TalkTypes
<1>3. Inv => PlayableAudioExists
  BY DEF AudioInv
<1>4. QED
  BY <1>1, <1>2, <1>3, PTL DEF VoiceDataSpec

-----------------------------------------------------------------------------
(* ToolRegistry *)

\* All tools of a provider.
Full(p) == Firsts(p, Len(Provided[p]))

ThreadStates == {"idle", "set", "lock", "load", "unlock", "clear", "read"}

RegistryTypes ==
  /\ bootstrapped \in BOOLEAN
  /\ errors \subseteq Providers
  /\ thread \in [Threads -> [pc : ThreadStates, at : Nat]]

\* What is registered was provided, and nothing was refused.
Genuine ==
  /\ \A d \in registry : \E p \in Providers : d \in Full(p)
  /\ duplicates = {}

\* The thread that fills the registry holds the lock.
Locked == \A t \in Threads : thread[t].pc \in {"load", "unlock"} => held = {t}

\* While it does, the registry is not taken for complete, and every provider it is past is
\* either there as a whole or known to have failed.
Progress ==
  \A t \in Threads : thread[t].pc = "load" =>
    /\ ~bootstrapped
    /\ thread[t].at >= 1
    /\ \A p \in Providers : p < thread[t].at => p \in errors \/ Full(p) \subseteq registry

\* Once bootstrapped, every provider is there and the last bootstrap had no error.
Complete == bootstrapped => errors = {} /\ \A p \in Providers : Full(p) \subseteq registry

RegistryInv == RegistryTypes /\ Genuine /\ Locked /\ Progress /\ Complete

-----------------------------------------------------------------------------
(* Steps *)

\* No tool of a provider clashes with what the others registered.
LEMMA NothingClashes ==
  ASSUME RegistryAssumption, Genuine, NEW p \in Providers, NEW n \in 0 .. Len(Provided[p])
  PROVE  Clash(p, n) = {} /\ Reached(p, n) = n
<1>1. ASSUME NEW i \in 1 .. n, NEW d \in registry, d.tool = Provided[p][i], d.source # p
      PROVE  FALSE
  <2>1. PICK q \in Providers : d \in Full(q)
    BY DEF Genuine
  <2>2. PICK j \in 1 .. Len(Provided[q]) : d.tool = Provided[q][j] /\ d.source = q
    BY <2>1 DEF Full, Firsts
  <2>3. i \in 1 .. Len(Provided[p])
    BY DEF RegistryAssumption, Providers
  <2>4. QED
    BY <1>1, <2>2, <2>3 DEF RegistryAssumption, Providers
<1>2. Clash(p, n) = {}
  BY <1>1 DEF Clash
<1>3. QED
  BY <1>2 DEF Reached

\* A thread that goes on without the registry, its lock or its loop disturbs nothing.
LEMMA GoingOnKeeps ==
  ASSUME RegistryInv, NEW t \in Threads, NEW pc \in ThreadStates \ {"load", "unlock"},
         Goto(t, pc, 0), thread[t].pc \notin {"load", "unlock"},
         UNCHANGED <<registry, duplicates, errors, bootstrapped, held>>
  PROVE  RegistryInv'
<1>1. /\ thread' \in [Threads -> [pc : ThreadStates, at : Nat]]
      /\ thread'[t].pc = pc
      /\ \A u \in Threads \ {t} : thread'[u] = thread[u]
  BY DEF RegistryInv, RegistryTypes, Goto
<1>2. QED
  BY <1>1 DEF RegistryInv, RegistryTypes, Genuine, Locked, Progress, Complete

LEMMA LockKeeps ==
  ASSUME RegistryInv, NEW t \in Threads, Lock(t)
  PROVE  RegistryInv'
<1>1. \A u \in Threads : thread[u].pc \notin {"load", "unlock"}
  BY DEF RegistryInv, Locked, Lock
<1>2. /\ held' = {t}
      /\ UNCHANGED <<registry, duplicates, bootstrapped>>
  BY DEF Lock
<1>3. CASE bootstrapped
  <2>1. /\ thread' \in [Threads -> [pc : ThreadStates, at : Nat]]
        /\ thread'[t].pc = "unlock"
        /\ \A u \in Threads \ {t} : thread'[u] = thread[u]
        /\ errors' = errors
    BY <1>3 DEF RegistryInv, RegistryTypes, Goto, Lock, ThreadStates
  <2>2. QED
    BY <1>1, <1>2, <2>1 DEF RegistryInv, RegistryTypes, Genuine, Locked, Progress, Complete
<1>4. CASE ~bootstrapped
  <2>1. /\ thread' \in [Threads -> [pc : ThreadStates, at : Nat]]
        /\ thread'[t].pc = "load" /\ thread'[t].at = 1
        /\ \A u \in Threads \ {t} : thread'[u] = thread[u]
        /\ errors' = {}
    BY <1>4 DEF RegistryInv, RegistryTypes, Goto, Lock, ThreadStates
  <2>2. Progress'
    BY <1>1, <1>2, <1>4, <2>1, RegistryAssumption DEF Progress, Providers, RegistryAssumption
  <2>3. QED
    BY <1>1, <1>2, <1>4, <2>1, <2>2 DEF RegistryInv, RegistryTypes, Genuine, Locked, Complete
<1>5. QED
  BY <1>3, <1>4

LEMMA LoadKeeps ==
  ASSUME RegistryAssumption, RegistryInv, NEW t \in Threads, NEW n, Load(t, n)
  PROVE  RegistryInv'
<1> DEFINE p == thread[t].at
<1>1. /\ thread[t].pc = "load" /\ p \in Providers /\ n \in 0 .. Len(Provided[p])
      /\ held = {t} /\ p \in Nat
      /\ UNCHANGED <<bootstrapped, held>>
  BY DEF Load, RegistryInv, RegistryTypes, Locked
<1>2. Clash(p, n) = {} /\ Reached(p, n) = n
  BY <1>1, NothingClashes DEF RegistryInv
<1>3. /\ registry' = registry \cup Firsts(p, n)
      /\ duplicates' = duplicates
      /\ errors' = IF n < Len(Provided[p]) THEN errors \cup {p} ELSE errors
      /\ Goto(t, "load", p + 1)
  BY <1>2 DEF Load
<1>4. /\ thread' \in [Threads -> [pc : ThreadStates, at : Nat]]
      /\ thread'[t].pc = "load" /\ thread'[t].at = p + 1
      /\ \A u \in Threads \ {t} : thread'[u] = thread[u]
  BY <1>1, <1>3 DEF RegistryInv, RegistryTypes, Goto, ThreadStates
<1>5. Firsts(p, n) \subseteq Full(p) /\ (n = Len(Provided[p]) => Full(p) \subseteq registry')
  <2>1. Len(Provided[p]) \in Nat
    BY <1>1 DEF RegistryAssumption, Providers
  <2>2. QED
    BY <1>1, <1>3, <2>1 DEF Full, Firsts
<1>6. ~bootstrapped /\ \A u \in Threads \ {t} : thread[u].pc \notin {"load", "unlock"}
  BY <1>1 DEF RegistryInv, Locked, Progress
<1>7. RegistryTypes'
  BY <1>1, <1>3, <1>4 DEF RegistryInv, RegistryTypes
<1>8. Genuine'
  BY <1>1, <1>3, <1>5 DEF RegistryInv, Genuine
<1>9. Locked'
  BY <1>1, <1>4, <1>6 DEF Locked
<1>10. Progress'
  <2>1. ASSUME NEW q \in Providers, q < p + 1
        PROVE  q \in errors' \/ Full(q) \subseteq registry'
    <3>1. q \in Nat /\ Len(Provided[p]) \in Nat
      BY <1>1 DEF RegistryAssumption, Providers
    <3>2. CASE q = p
      BY <1>1, <1>3, <1>5, <3>1, <3>2
    <3>3. CASE q < p
      BY <1>1, <1>3, <3>3 DEF RegistryInv, Progress
    <3>4. QED
      BY <1>1, <2>1, <3>1, <3>2, <3>3
  <2>2. p + 1 >= 1
    BY <1>1
  <2>3. QED
    BY <1>1, <1>4, <1>6, <2>1, <2>2 DEF Progress
<1>11. QED
  BY <1>1, <1>6, <1>7, <1>8, <1>9, <1>10 DEF RegistryInv, Complete

LEMMA LoadedKeeps ==
  ASSUME RegistryAssumption, RegistryInv, NEW t \in Threads, Loaded(t)
  PROVE  RegistryInv'
<1>1. /\ thread[t].pc = "load" /\ thread[t].at \in Nat \ Providers /\ thread[t].at >= 1
      /\ held = {t}
      /\ UNCHANGED <<registry, duplicates, errors, held>>
      /\ bootstrapped' = (errors = {})
  BY DEF Loaded, RegistryInv, RegistryTypes, Locked, Progress
<1>2. /\ thread' \in [Threads -> [pc : ThreadStates, at : Nat]]
      /\ thread'[t].pc = "unlock"
      /\ \A u \in Threads \ {t} : thread'[u] = thread[u]
  BY DEF RegistryInv, RegistryTypes, Goto, Loaded, ThreadStates
<1>3. \A p \in Providers : p < thread[t].at
  BY <1>1 DEF RegistryAssumption, Providers
<1>4. Complete'
  BY <1>1, <1>3 DEF RegistryInv, Progress, Complete
<1>5. \A u \in Threads \ {t} : thread[u].pc \notin {"load", "unlock"}
  BY <1>1 DEF RegistryInv, Locked
<1>6. RegistryTypes' /\ Genuine' /\ Locked' /\ Progress'
  BY <1>1, <1>2, <1>5 DEF RegistryInv, RegistryTypes, Genuine, Locked, Progress
<1>7. QED
  BY <1>4, <1>6 DEF RegistryInv

LEMMA UnlockKeeps ==
  ASSUME RegistryInv, NEW t \in Threads, Unlock(t)
  PROVE  RegistryInv'
<1>1. /\ thread[t].pc = "unlock" /\ held = {t}
      /\ UNCHANGED <<registry, duplicates, errors, bootstrapped>>
  BY DEF Unlock, RegistryInv, Locked
<1>2. /\ thread' \in [Threads -> [pc : ThreadStates, at : Nat]]
      /\ thread'[t].pc = "clear"
      /\ \A u \in Threads \ {t} : thread'[u] = thread[u]
  BY DEF RegistryInv, RegistryTypes, Goto, Unlock, ThreadStates
<1>3. \A u \in Threads \ {t} : thread[u].pc \notin {"load", "unlock"}
  BY <1>1 DEF RegistryInv, Locked
<1>4. QED
  BY <1>1, <1>2, <1>3 DEF RegistryInv, RegistryTypes, Genuine, Locked, Progress, Complete

LEMMA NextKeeps ==
  ASSUME RegistryAssumption, RegistryInv, [RegistryNext]_regvars
  PROVE  RegistryInv'
<1>1. ASSUME NEW t \in Threads, Discover(t) PROVE RegistryInv'
  <2>1. CASE ensuring
    BY <1>1, <2>1, GoingOnKeeps DEF Discover, ThreadStates
  <2>2. CASE ~ensuring
    BY <1>1, <2>2, GoingOnKeeps DEF Discover, ThreadStates
  <2>3. QED
    BY <2>1, <2>2
<1>2. ASSUME NEW t \in Threads, Ensure(t) PROVE RegistryInv'
  BY <1>2, GoingOnKeeps DEF Ensure, ThreadStates
<1>3. ASSUME NEW t \in Threads, Ensured(t) PROVE RegistryInv'
  BY <1>3, GoingOnKeeps DEF Ensured, ThreadStates
<1>4. ASSUME NEW t \in Threads, Read(t) PROVE RegistryInv'
  BY <1>4, GoingOnKeeps DEF Read, ThreadStates
<1>5. CASE UNCHANGED regvars
  BY <1>5 DEF regvars, RegistryInv, RegistryTypes, Genuine, Locked, Progress, Complete
<1>6. QED
  BY <1>1, <1>2, <1>3, <1>4, <1>5, LockKeeps, LoadKeeps, LoadedKeeps, UnlockKeeps
     DEF RegistryNext

LEMMA RegistryInitIsGood ==
  ASSUME RegistryAssumption, RegistryInit
  PROVE  RegistryInv
<1>1. PICK got \in [Providers -> 0 .. MaxTools] :
        /\ \A p \in Providers : got[p] <= Len(Provided[p])
        /\ registry = UNION {Firsts(p, got[p]) : p \in Providers}
        /\ errors = {p \in Providers : got[p] < Len(Provided[p])}
  BY DEF RegistryInit
<1>2. \A p \in Providers : got[p] \in 0 .. Len(Provided[p]) /\ Len(Provided[p]) \in Nat
  BY <1>1 DEF RegistryAssumption, Providers
<1>3. \A p \in Providers : Firsts(p, got[p]) \subseteq Full(p)
  BY <1>2 DEF Full, Firsts
<1>4. Genuine
  BY <1>1, <1>3, ZenonT(60) DEF RegistryInit, Genuine
<1>5. ASSUME errors = {}, NEW p \in Providers PROVE Full(p) \subseteq registry
  <2>1. got[p] = Len(Provided[p])
    BY <1>1, <1>2, <1>5
  <2>2. QED
    BY <1>1, <2>1 DEF Full
<1>6. Complete
  BY <1>5 DEF RegistryInit, Complete
<1>7. RegistryTypes /\ Locked /\ Progress
  BY <1>1 DEF RegistryInit, RegistryTypes, Locked, Progress, ThreadStates
<1>8. QED
  BY <1>4, <1>6, <1>7 DEF RegistryInv

-----------------------------------------------------------------------------
(* Theorems *)

\* A registry that is taken for complete has every tool of every provider, and no more, and
\* nothing was refused on the way, however many threads discover tools and however often
\* providers raise half-way (ToolRegistry.bootstrap).
THEOREM CompleteRegistryIsWhole == RegistrySpec => []BootstrapIsWhole
<1>1. RegistryInit => RegistryInv
  BY RegistryInitIsGood, RegistryAssumption
<1>2. RegistryInv /\ [RegistryNext]_regvars => RegistryInv'
  BY NextKeeps, RegistryAssumption
<1>3. RegistryInv => BootstrapIsWhole
  BY DEF RegistryInv, Genuine, Complete, BootstrapIsWhole, Full
<1>4. QED
  BY <1>1, <1>2, <1>3, PTL DEF RegistrySpec

-----------------------------------------------------------------------------
(* StepPlanner: every step the rules make is one of a few, whatever the command. *)

RuleSteps(q) ==
  {[tool |-> "open_url", input |-> [url |-> "url"]],
   [tool |-> "answer_page", input |-> [question |-> "words"]],
   [tool |-> "search", input |-> [query |-> q.query, fallback |-> "error"]],
   [tool |-> "scroll_until", input |-> [query |-> q.query, direction |-> "down"]],
   [tool |-> "media_action", input |-> [media_action |-> "seek", seconds |-> "number"]],
   [tool |-> "media.analyze", input |-> NoInput],
   [tool |-> "find", input |-> [query |-> "words"]]}
    \cup {[tool |-> t, input |-> [target |-> v]] :
            t \in {"click", "double_click", "right_click"}, v \in {"words", "object"}}
    \cup {[tool |-> "scroll", input |-> [direction |-> d]] : d \in {"up", "down"}}
    \cup {[tool |-> "media_action", input |-> [media_action |-> a]] : a \in {"play", "pause"}}
    \cup {s \in {[tool |-> "search", input |-> [query |-> q.query]]} :
            q.search = "web" \/ "research" \in q.says}

\* The tool accepts the step, and a search that may end up in the web was asked for.
Meant(q, s) ==
  /\ Accepts(s.tool, Given(s.input))
  /\ s.tool = "search" =>
       \/ q.search = "web" \/ "research" \in q.says
       \/ "fallback" \in DOMAIN s.input /\ s.input["fallback"] = "error"

\* An input whose declared fields have what the schema admits is accepted with the run's fields.
LEMMA InputsAccepted ==
  ASSUME NEW w \in {"words", "blank"}, NEW v \in {"words", "object"}, NEW d \in {"up", "down"},
         NEW a \in {"play", "pause"}, NEW t \in {"click", "double_click", "right_click"}
  PROVE  /\ Accepts("open_url", Given([url |-> "url"]))
         /\ Accepts("answer_page", Given([question |-> "words"]))
         /\ Accepts("search", Given([query |-> w, fallback |-> "error"]))
         /\ Accepts("search", Given([query |-> w]))
         /\ Accepts("scroll_until", Given([query |-> w, direction |-> "down"]))
         /\ Accepts("media_action", Given([media_action |-> "seek", seconds |-> "number"]))
         /\ Accepts("media_action", Given([media_action |-> a]))
         /\ Accepts("media.analyze", Given(NoInput))
         /\ Accepts("find", Given([query |-> "words"]))
         /\ Accepts("scroll", Given([direction |-> d]))
         /\ Accepts(t, Given([target |-> v]))
<1> USE DEF Accepts, Given, Schema, Required, Optional, Strings, Values
<1>1. Accepts("open_url", Given([url |-> "url"]))
  OBVIOUS
<1>2. Accepts("answer_page", Given([question |-> "words"]))
  OBVIOUS
<1>3. Accepts("search", Given([query |-> w, fallback |-> "error"]))
  OBVIOUS
<1>4. Accepts("search", Given([query |-> w]))
  OBVIOUS
<1>5. Accepts("scroll_until", Given([query |-> w, direction |-> "down"]))
  OBVIOUS
<1>6. Accepts("media_action", Given([media_action |-> "seek", seconds |-> "number"]))
  OBVIOUS
<1>7. Accepts("media_action", Given([media_action |-> a]))
  OBVIOUS
<1>8. Accepts("media.analyze", Given(NoInput))
  BY DEF NoInput
<1>9. Accepts("find", Given([query |-> "words"]))
  OBVIOUS
<1>10. Accepts("scroll", Given([direction |-> d]))
  OBVIOUS
<1>11. Accepts(t, Given([target |-> v]))
  OBVIOUS
<1> HIDE DEF Accepts, Given, Schema, Required, Optional, Strings, Values
<1>12. QED
  BY <1>1, <1>2, <1>3, <1>4, <1>5, <1>6, <1>7, <1>8, <1>9, <1>10, <1>11

LEMMA RuleStepsAreMeant ==
  ASSUME NEW q \in Commands, NEW s \in RuleSteps(q)
  PROVE  Meant(q, s)
<1>0. q.query \in {"words", "blank"}
  BY DEF Commands
<1>1. CASE s \in {[tool |-> t, input |-> [target |-> v]] :
                    t \in {"click", "double_click", "right_click"}, v \in {"words", "object"}}
  BY <1>1, InputsAccepted DEF Meant
<1>2. CASE s \in {[tool |-> "scroll", input |-> [direction |-> d]] : d \in {"up", "down"}}
  BY <1>2, InputsAccepted DEF Meant
<1>3. CASE s \in {[tool |-> "media_action", input |-> [media_action |-> a]] : a \in {"play", "pause"}}
  BY <1>3, InputsAccepted DEF Meant
<1>4. CASE s = [tool |-> "search", input |-> [query |-> q.query]] /\ (q.search = "web" \/ "research" \in q.says)
  BY <1>0, <1>4, InputsAccepted DEF Meant
<1>5. CASE s = [tool |-> "search", input |-> [query |-> q.query, fallback |-> "error"]]
  <2>1. s.tool = "search" /\ s.input = [query |-> q.query, fallback |-> "error"]
    BY <1>5
  <2>2. "fallback" \in DOMAIN s.input /\ s.input["fallback"] = "error"
    BY <2>1
  <2>3. QED
    BY <1>0, <2>1, <2>2, InputsAccepted DEF Meant
<1>6. CASE \/ s = [tool |-> "open_url", input |-> [url |-> "url"]]
           \/ s = [tool |-> "answer_page", input |-> [question |-> "words"]]
           \/ s = [tool |-> "scroll_until", input |-> [query |-> q.query, direction |-> "down"]]
           \/ s = [tool |-> "media_action", input |-> [media_action |-> "seek", seconds |-> "number"]]
           \/ s = [tool |-> "media.analyze", input |-> NoInput]
           \/ s = [tool |-> "find", input |-> [query |-> "words"]]
  BY <1>0, <1>6, InputsAccepted DEF Meant
<1>7. QED
  BY <1>1, <1>2, <1>3, <1>4, <1>5, <1>6 DEF RuleSteps

\* Steps of one kind put after each other, or left out, remain steps of that kind.
LEMMA StepsOf ==
  ASSUME NEW K
  PROVE  /\ <<>> \in Seq(K)
         /\ \A t, i : [tool |-> t, input |-> i] \in K => S(t, i) \in Seq(K)
         /\ \A x, y \in Seq(K) : x \o y \in Seq(K)
         /\ \A x \in Seq(K) : \A p \in BOOLEAN : When(p, x) \in Seq(K)
BY DEF S, When

LEMMA RulesMakeRuleSteps ==
  ASSUME NEW q \in Commands
  PROVE  Deterministic(q) \in Seq(RuleSteps(q))
<1> DEFINE K == RuleSteps(q)
<1>0. /\ q.query \in {"words", "blank"} /\ q.click \in {"no", "click", "double_click", "right_click"}
      /\ q.scrolls \in Seq({"up", "down", "unsaid"})
  BY DEF Commands
<1>1. /\ [tool |-> "open_url", input |-> [url |-> "url"]] \in K
      /\ [tool |-> "answer_page", input |-> [question |-> "words"]] \in K
      /\ [tool |-> "search", input |-> [query |-> q.query, fallback |-> "error"]] \in K
      /\ [tool |-> "scroll_until", input |-> [query |-> q.query, direction |-> "down"]] \in K
      /\ [tool |-> "media_action", input |-> [media_action |-> "seek", seconds |-> "number"]] \in K
      /\ [tool |-> "media.analyze", input |-> NoInput] \in K
      /\ [tool |-> "find", input |-> [query |-> "words"]] \in K
  BY DEF RuleSteps
<1>2. \A t \in {"click", "double_click", "right_click"}, v \in {"words", "object"} :
        [tool |-> t, input |-> [target |-> v]] \in K
  BY DEF RuleSteps
<1>3. /\ \A d \in {"up", "down"} : [tool |-> "scroll", input |-> [direction |-> d]] \in K
      /\ \A a \in {"play", "pause"} : [tool |-> "media_action", input |-> [media_action |-> a]] \in K
  BY DEF RuleSteps
<1>4. q.search = "web" \/ "research" \in q.says => [tool |-> "search", input |-> [query |-> q.query]] \in K
  BY DEF RuleSteps
<1> HIDE DEF K
<1>5. Opened(q) \in Seq(K)
  BY <1>1, StepsOf DEF Opened
<1>6. Researched(q) \in Seq(K)
  <2>1. CASE "research" \in q.says
    <3>1. /\ S("search", [query |-> q.query]) \in Seq(K)
          /\ S("click", [target |-> "object"]) \in Seq(K)
          /\ S("answer_page", [question |-> "words"]) \in Seq(K)
      BY <1>1, <1>2, <1>4, <2>1, StepsOf
    <3>2. QED
      BY <2>1, <3>1, StepsOf DEF Researched, When
  <2>2. CASE "research" \notin q.says
    BY <2>2, StepsOf DEF Researched, When
  <2>3. QED
    BY <2>1, <2>2
<1>7. Searched(q) \in Seq(K)
  <2>1. CASE q.search = "site"
    <3>1. S("open_url", [url |-> "url"]) \in Seq(K) /\ S("search", [query |-> q.query, fallback |-> "error"]) \in Seq(K)
      BY <1>1, StepsOf
    <3>2. QED
      BY <2>1, <3>1, StepsOf DEF Searched
  <2>2. CASE q.search = "web"
    BY <1>4, <2>2, StepsOf DEF Searched
  <2>3. CASE q.search \notin {"site", "web"}
    BY <2>3, StepsOf DEF Searched
  <2>4. QED
    BY <2>1, <2>2, <2>3
<1>8. Scrolled(q) \in Seq(K)
  <2>1. CASE "until" \in q.says
    BY <1>1, <2>1, StepsOf DEF Scrolled
  <2>2. CASE "until" \notin q.says
    <3>1. \A i \in 1 .. Len(q.scrolls) :
            [tool |-> "scroll",
             input |-> [direction |-> IF q.scrolls[i] = "unsaid" THEN "down" ELSE q.scrolls[i]]] \in K
      BY <1>0, <1>3
    <3>2. QED
      BY <1>0, <2>2, <3>1 DEF Scrolled
  <2>3. QED
    BY <2>1, <2>2
<1>9. Chosen(q) \in Seq(K)
  <2>1. \A t \in {"click", "double_click", "right_click"}, v \in {"words", "object"} :
          S(t, [target |-> v]) \in Seq(K)
    BY <1>2, StepsOf
  <2>2. QED
    BY <1>0, <2>1, StepsOf DEF Chosen, When
<1>10. Played(q) \in Seq(K)
  <2> DEFINE M(a) == S("media_action", [media_action |-> a])
             Seek == S("media_action", [media_action |-> "seek", seconds |-> "number"])
  <2>1. M("play") \in Seq(K) /\ M("pause") \in Seq(K) /\ Seek \in Seq(K)
    BY <1>1, <1>3, StepsOf
  <2>2. Played(q) = When("play" \in q.says, M("play")) \o When("pause" \in q.says, M("pause"))
                      \o When("skip" \in q.says, Seek) \o When("rewind" \in q.says, Seek)
    BY DEF Played
  <2> HIDE DEF M, Seek
  <2>3. /\ When("play" \in q.says, M("play")) \in Seq(K) /\ When("pause" \in q.says, M("pause")) \in Seq(K)
        /\ When("skip" \in q.says, Seek) \in Seq(K) /\ When("rewind" \in q.says, Seek) \in Seq(K)
    BY <2>1, StepsOf DEF When
  <2>4. QED
    BY <2>2, <2>3, StepsOf
<1>11. Understood(q) \in Seq(K)
  <2>1. /\ S("media.analyze", NoInput) \in Seq(K) /\ S("answer_page", [question |-> "words"]) \in Seq(K)
        /\ S("find", [query |-> "words"]) \in Seq(K)
    BY <1>1, StepsOf
  <2>2. /\ When("watch" \in q.says, S("media.analyze", NoInput)) \in Seq(K)
        /\ When("what" \in q.says, S("answer_page", [question |-> "words"])) \in Seq(K)
        /\ When("find" \in q.says /\ "until" \notin q.says, S("find", [query |-> "words"])) \in Seq(K)
    BY <2>1, StepsOf DEF When
  <2>3. QED
    BY <2>2, StepsOf DEF Understood
<1>12. QED
  BY <1>5, <1>6, <1>7, <1>8, <1>9, <1>10, <1>11, StepsOf DEF Deterministic, K

\* A plan of the rules consists of their steps and a run of it stands at one of them.
PlannerInv ==
  /\ at \in Nat /\ asked \in Commands
  /\ plan.by = "rules" =>
       /\ plan.steps \in Seq(RuleSteps(asked))
       /\ serving = "running" => at \in DOMAIN plan.steps
       /\ "web" \in went => asked.search = "web" \/ "research" \in asked.says

LEMMA RunningKeeps ==
  ASSUME PlannerInv, UNCHANGED <<asked, plan>>, at' = at + 1,
         serving' = "running" => at < Len(plan.steps),
         "web" \in went' => \/ "web" \in went
                            \/ plan.by = "rules" => asked.search = "web" \/ "research" \in asked.says
  PROVE  PlannerInv'
BY DEF PlannerInv

LEMMA PlannerKeeps ==
  ASSUME PlannerInv, CommandsAssumption, [PlannerNext]_plvars
  PROVE  PlannerInv'
<1>1. CASE UNCHANGED plvars
  BY <1>1 DEF plvars, PlannerInv
<1>2. ASSUME NEW q \in Asked, AnswerMedia(q) \/ RefuseLocal(q) \/ CannotStart(q)
      PROVE  PlannerInv'
  <2>1. plan' = NoPlan /\ at' = 1 /\ asked' = q
    BY <1>2 DEF AnswerMedia, RefuseLocal, CannotStart, Answered, Receive
  <2>2. QED
    BY <2>1, CommandsAssumption DEF PlannerInv, NoPlan
<1>3. ASSUME NEW q \in Asked, StartPlanned(q)
      PROVE  PlannerInv'
  <2>1. /\ plan' = [by |-> "rules", steps |-> Deterministic(q)] /\ Deterministic(q) # <<>>
        /\ at' = 1 /\ asked' = q /\ went' = {}
    BY <1>3 DEF StartPlanned, Receive
  <2>2. Deterministic(q) \in Seq(RuleSteps(q)) /\ q \in Commands
    BY RulesMakeRuleSteps, CommandsAssumption
  <2>3. plan'.steps = Deterministic(q) /\ 1 \in DOMAIN Deterministic(q)
    BY <2>1, <2>2
  <2>4. QED
    BY <2>1, <2>2, <2>3 DEF PlannerInv
<1>4. ASSUME NEW q \in Asked, NEW raw, StartModelled(q, raw)
      PROVE  PlannerInv'
  <2>1. at' = 1 /\ asked' = q /\ plan'.by # "rules"
    BY <1>4 DEF StartModelled, Receive, Answered, NoPlan
  <2>2. QED
    BY <2>1, CommandsAssumption DEF PlannerInv
<1>5. CASE Refuse \/ Open \/ ScrollUntil \/ Analyze \/ Act
  <2>1. /\ UNCHANGED <<asked, plan, went>> /\ at' = at + 1
        /\ serving' = "running" => at < Len(plan.steps)
    BY <1>5 DEF Refuse, Open, ScrollUntil, Analyze, Act, Step0, Next0
  <2>2. QED
    BY <2>1, RunningKeeps
<1>6. CASE Search
  <2>1. /\ UNCHANGED <<asked, plan>> /\ at' = at + 1
        /\ serving' = "running" => at < Len(plan.steps)
        /\ at \in DOMAIN plan.steps /\ plan.steps[at].tool = "search"
    BY <1>6 DEF Search, Step0, Next0
  <2> DEFINE input == plan.steps[at].input
             web   == ~page.searchable /\ ("fallback" \notin DOMAIN input \/ input["fallback"] # "error")
  <2>2. \/ went' = went
        \/ went' = went \cup (IF page.searchable THEN {"page"} ELSE IF web THEN {"web"} ELSE {})
    BY <1>6 DEF Search
  <2>3. "web" \in went' => \/ "web" \in went
                           \/ "fallback" \notin DOMAIN plan.steps[at].input
                           \/ plan.steps[at].input["fallback"] # "error"
    BY <2>2
  <2>4. plan.by = "rules" => Meant(asked, plan.steps[at])
    BY <2>1, RuleStepsAreMeant DEF PlannerInv
  <2>5. QED
    BY <2>1, <2>3, <2>4, RunningKeeps DEF Meant
<1>7. QED
  BY <1>1, <1>2, <1>3, <1>4, <1>5, <1>6 DEF PlannerNext

\* Whatever a command combines, the tools accept every step the rules plan for it, and its
\* search of a known site never becomes one of the web (deterministic, execute_named, _browser_search).
THEOREM RulePlansRun == PlannerSpec => []PlansRunAsMeant
<1>1. PlannerInit => PlannerInv
  BY DEF PlannerInit, PlannerInv, NoPlan, Nobody, Commands
<1>2. PlannerInv /\ [PlannerNext]_plvars => PlannerInv'
  BY PlannerKeeps, CommandsAssumption
<1>3. PlannerInv => PlansRunAsMeant
  <2>1. ASSUME PlannerInv, plan.by = "rules", serving = "running"
        PROVE  Taken
    BY <2>1, RuleStepsAreMeant DEF PlannerInv, Meant, Taken
  <2>2. QED
    BY <2>1 DEF PlannerInv, PlansRunAsMeant
<1>4. QED
  BY <1>1, <1>2, <1>3, PTL DEF PlannerSpec

-----------------------------------------------------------------------------
(* The operations of the API.  A script is a fixed sequence of statements  *)
(* around a loop over the items of the request; FlattenSeq's recursion is  *)
(* opened once, by least-element induction over its function, for bodies   *)
(* of one, two and three statements.                                       *)

\* A set of numbers that is not empty has a least one.
LEMMA LeastOf ==
  ASSUME NEW T \in SUBSET Nat, T # {}
  PROVE  \E x \in T : \A y \in T : x <= y
<1> DEFINE R == OpToRel(<, Nat)
<1>1. IsWellFoundedOn(R, Nat)
  BY NatLessThanWellFounded
<1>2. \A x, y \in Nat : y < x => <<y, x>> \in R
  BY DEF OpToRel
<1> HIDE DEF R
<1>3. PICK x \in T : \A y \in T : ~ (<<y, x>> \in R)
  BY <1>1, WFMin
<1>4. ASSUME NEW y \in T
      PROVE  x <= y
  <2>1. ~ (y < x)
    BY <1>2, <1>3
  <2> QED BY <2>1
<1> QED BY <1>4

\* What holds of 0, and of n + 1 when it holds of n, holds of every number.
LEMMA Induction ==
  ASSUME NEW T, 0 \in T, \A n \in Nat : n \in T => n + 1 \in T
  PROVE  Nat \subseteq T
<1>1. SUFFICES ASSUME Nat \ T # {} PROVE FALSE
  OBVIOUS
<1>2. PICK x \in Nat \ T : \A y \in Nat \ T : x <= y
  BY <1>1, LeastOf
<1>3. x # 0 /\ x - 1 \in Nat
  BY <1>2
<1>4. x - 1 \in T
  BY <1>2, <1>3
<1> QED BY <1>2, <1>3, <1>4

\* f has what FlattenSeq says of the first n sequences.
FlatTo(b, n, f) == f = [i \in 1 .. n |-> IF i = 1 THEN b[i] ELSE f[i - 1] \o b[i]]

\* There is such a function, for any number of sequences.
LEMMA FlatExists ==
  ASSUME NEW b, NEW n \in Nat
  PROVE  \E f : FlatTo(b, n, f)
<1> DEFINE T == {m \in Nat : \E f : FlatTo(b, m, f)}
<1>1. 0 \in T
  <2>1. FlatTo(b, 0, [i \in 1 .. 0 |-> b])
        BY DEF FlatTo
  <2> QED BY <2>1
<1>2. ASSUME NEW m \in Nat, m \in T PROVE m + 1 \in T
  <2>1. PICK f : FlatTo(b, m, f)
        BY <1>2
  <2> DEFINE last == IF m = 0 THEN b[1] ELSE f[m] \o b[m + 1]
             g == [i \in 1 .. m + 1 |-> IF i = m + 1 THEN last ELSE f[i]]
  <2>2. \A i \in 1 .. m : f[i] = IF i = 1 THEN b[i] ELSE f[i - 1] \o b[i]
        BY <2>1 DEF FlatTo
  <2> HIDE DEF last
  <2>3. g[m + 1] = last /\ \A i \in 1 .. m : g[i] = f[i]
        OBVIOUS
  <2>4. g = [i \in 1 .. m + 1 |-> g[i]]
        OBVIOUS
  <2> HIDE DEF g
  <2>5. ASSUME NEW i \in 1 .. m + 1 PROVE g[i] = IF i = 1 THEN b[i] ELSE g[i - 1] \o b[i]
    <3>1. CASE i = m + 1
      <4>1. m # 0 => m \in 1 .. m
            OBVIOUS
      <4> QED BY <2>3, <3>1, <4>1 DEF last
    <3>2. CASE i # m + 1
      <4>1. i \in 1 .. m /\ (i # 1 => i - 1 \in 1 .. m)
            BY <3>2
      <4> QED BY <2>2, <2>3, <4>1
    <3> QED BY <3>1, <3>2
  <2>6. FlatTo(b, m + 1, g)
        BY <2>4, <2>5 DEF FlatTo
  <2> QED BY <2>6
<1> HIDE DEF T
<1>3. Nat \subseteq T
      BY <1>1, <1>2, Induction
<1> QED BY <1>3 DEF T

\* It is the one FlattenSeq takes its last value of.
LEMMA FlatIs ==
  ASSUME NEW K, NEW b \in Seq(Seq(K)), Len(b) # 0
  PROVE  \E f : FlatTo(b, Len(b), f) /\ FlattenSeq(b) = f[Len(b)]
<1> DEFINE f == CHOOSE g : FlatTo(b, Len(b), g)
<1>1. FlatTo(b, Len(b), f)
      BY FlatExists, Len(b) \in Nat
<1>2. FlattenSeq(b) = f[Len(b)]
      BY DEF FlattenSeq, FlatTo
<1> QED BY <1>1, <1>2

\* The second of two sequences starts where the first one ends.
LEMMA InSecond ==
  ASSUME NEW K, NEW x \in Seq(K), NEW y \in Seq(K), NEW j \in 1 .. Len(y)
  PROVE  (x \o y)[Len(x) + j] = y[j]
OBVIOUS

\* Flattened, sequences of one length lie one after the other.
LEMMA Flattened ==
  ASSUME NEW K, NEW b \in Seq(Seq(K)), NEW m \in 1 .. 3, \A i \in 1 .. Len(b) : Len(b[i]) = m
  PROVE  /\ FlattenSeq(b) \in Seq(K)
         /\ Len(FlattenSeq(b)) = Len(b) * m
         /\ \A i \in 1 .. Len(b), j \in 1 .. m : FlattenSeq(b)[(i - 1) * m + j] = b[i][j]
<1>0. CASE Len(b) = 0
      BY <1>0 DEF FlattenSeq
<1>1. CASE Len(b) # 0
  <2>1. PICK f : FlatTo(b, Len(b), f) /\ FlattenSeq(b) = f[Len(b)]
        BY <1>1, FlatIs
  <2>2. \A i \in 1 .. Len(b) : f[i] = IF i = 1 THEN b[i] ELSE f[i - 1] \o b[i]
        BY <2>1 DEF FlatTo
  <2> DEFINE Good(n) == /\ f[n] \in Seq(K) /\ Len(f[n]) = n * m
                        /\ \A i \in 1 .. n, j \in 1 .. m : f[n][(i - 1) * m + j] = b[i][j]
             T == {n \in Nat : n + 1 \in 1 .. Len(b) => Good(n + 1)}
  <2>3. 0 \in T
    <3>1. f[1] = b[1] /\ b[1] \in Seq(K) /\ Len(b[1]) = m
          BY <1>1, <2>2
    <3>2. \A i \in 1 .. 1, j \in 1 .. m : (i - 1) * m + j = j
          OBVIOUS
    <3> QED BY <3>1, <3>2
  <2>4. ASSUME NEW n \in Nat, n \in T PROVE n + 1 \in T
    <3>1. SUFFICES ASSUME n + 2 \in 1 .. Len(b) PROVE Good(n + 2)
          OBVIOUS
    <3>2. n + 1 \in 1 .. Len(b) /\ f[n + 2] = f[n + 1] \o b[n + 2] /\ b[n + 2] \in Seq(K) /\ Len(b[n + 2]) = m
      <4>1. n + 1 \in 1 .. Len(b) /\ n + 2 # 1 /\ n + 2 - 1 = n + 1
            BY <3>1
      <4>2. f[n + 2] = IF n + 2 = 1 THEN b[n + 2] ELSE f[n + 2 - 1] \o b[n + 2]
            BY <2>2, <3>1
      <4>3. b[n + 2] \in Seq(K)
            BY <3>1
      <4> QED BY <3>1, <4>1, <4>2, <4>3
    <3>3. Good(n + 1)
          BY <2>4, <3>2
    <3> DEFINE p == f[n + 1]
    <3>4. p \in Seq(K) /\ Len(p) = (n + 1) * m
            /\ \A i \in 1 .. n + 1, j \in 1 .. m : p[(i - 1) * m + j] = b[i][j]
          BY <3>3
    <3>5. f[n + 2] = p \o b[n + 2]
          BY <3>2
    <3> HIDE DEF p, Good
    <3>6. f[n + 2] \in Seq(K) /\ Len(f[n + 2]) = (n + 2) * m
          BY <3>2, <3>4, <3>5
    <3>7. ASSUME NEW i \in 1 .. n + 2, NEW j \in 1 .. m PROVE f[n + 2][(i - 1) * m + j] = b[i][j]
      <4>1. CASE i = n + 2
        <5>1. i - 1 = n + 1
              BY <4>1
        <5>2. (i - 1) * m + j = Len(p) + j
              BY <3>4, <5>1
        <5>3. (p \o b[n + 2])[Len(p) + j] = b[n + 2][j]
          <6>1. p \in Seq(K) /\ b[n + 2] \in Seq(K) /\ j \in 1 .. Len(b[n + 2])
                BY <3>2, <3>4
          <6> QED BY <6>1, InSecond
        <5> QED BY <3>5, <4>1, <5>2, <5>3
      <4>2. CASE i # n + 2
        <5>1. i \in 1 .. n + 1 /\ (i - 1) * m + j \in 1 .. Len(p)
          <6>1. CASE m = 1
                BY <3>4, <4>2, <6>1
          <6>2. CASE m = 2
                BY <3>4, <4>2, <6>2
          <6>3. CASE m = 3
                BY <3>4, <4>2, <6>3
          <6> QED BY <6>1, <6>2, <6>3
        <5> DEFINE k == (i - 1) * m + j
        <5>2. k \in 1 .. Len(p) /\ p[k] = b[i][j]
              BY <3>4, <5>1
        <5> HIDE DEF k
        <5>3. f[n + 2][k] = p[k]
              BY <3>2, <3>4, <3>5, <5>2
        <5> QED BY <5>2, <5>3 DEF k
      <4> QED BY <4>1, <4>2
    <3> QED BY <3>6, <3>7 DEF Good
  <2> HIDE DEF T, Good
  <2>5. Nat \subseteq T
        BY <2>3, <2>4, Induction
  <2> DEFINE k == Len(b) - 1
  <2>6. k \in Nat /\ k + 1 = Len(b) /\ k + 1 \in 1 .. Len(b)
        BY <1>1
  <2> HIDE DEF k
  <2>7. Good(k + 1)
        BY <2>5, <2>6 DEF T
  <2>8. Good(Len(b))
        BY <2>6, <2>7
  <2> QED BY <2>1, <2>8 DEF Good
<1> QED BY <1>0, <1>1

\* What the statements of an operation are about, and which services it asks.
Kinds ==
  [upload |-> {"file", "job", "document", "content"}, search |-> {"query", "result"},
   fetch |-> {"page"}, crawl |-> {"page", "crawl"}, download |-> {"file", "download"},
   plan |-> {"plan", "step", "risk"}, restore |-> {"project"}, notify |-> {"notice", "delivery"}, deliver |-> {"notice", "delivery"},
   generate |-> {"request", "response"}, aggregate |-> {"metric", "point", "aggregate"},
   sync |-> {"thread", "message", "account"}, sync_task |-> {"thread", "message", "account"}]

Services(op) ==
  CASE op \in {"notify", "deliver"} -> {"mail"}
    [] op \in {"sync", "sync_task"}         -> {"mailbox", "header"}
    [] op = "upload"                        -> {"extractor"}
    [] op = "generate"                      -> {"model"}
    [] op = "search"                        -> {"search"}
    [] op \in {"fetch", "crawl", "download"} -> {"fetch"}
    [] OTHER                                -> {}

Statuses ==
  {"", "failed", "active", "completed", "computed", "delivered", "fetched", "open", "pending", "processing",
   "queued", "ready", "retrieved", "running", "stored", "suppressed", "synchronized"}

Statements(kinds, services) ==
  [do : {"put"}, kind : kinds, n : Nat, status : Statuses]
    \cup [do : {"ask"}, kind : services, n : {0}, status : {""}]
    \cup [do : {"test"}, kind : {"item", "never"}, n : Nat, status : {""}]

\* A statement of each form is a script of length one.
LEMMA OneStatement ==
  ASSUME NEW K, NEW V
  PROVE  /\ \A k \in K, n \in Nat, s \in Statuses :
              Put(k, n, s) \in Seq(Statements(K, V)) /\ Len(Put(k, n, s)) = 1
         /\ \A k \in V : Ask(k) \in Seq(Statements(K, V)) /\ Len(Ask(k)) = 1
         /\ \A k \in {"item", "never"}, n \in Nat :
              Test(k, n) \in Seq(Statements(K, V)) /\ Len(Test(k, n)) = 1
<1> DEFINE L == Statements(K, V)
<1>1. /\ \A k \in K, n \in Nat, s \in Statuses : [do |-> "put", kind |-> k, n |-> n, status |-> s] \in L
      /\ \A k \in V : [do |-> "ask", kind |-> k, n |-> 0, status |-> ""] \in L
      /\ \A k \in {"item", "never"}, n \in Nat : [do |-> "test", kind |-> k, n |-> n,
         status |-> ""] \in L
      BY DEF Statements
<1> HIDE DEF L
<1>2. \A x \in L : <<x>> \in Seq(L) /\ Len(<<x>>) = 1
      OBVIOUS
<1>3. /\ \A k \in K, n \in Nat, s \in Statuses : Put(k, n, s) \in Seq(L) /\ Len(Put(k, n, s)) = 1
      BY <1>1, <1>2 DEF Put
<1>4. /\ \A k \in V : Ask(k) \in Seq(L) /\ Len(Ask(k)) = 1
      BY <1>1, <1>2 DEF Ask
<1>5. /\ \A k \in {"item", "never"}, n \in Nat : Test(k, n) \in Seq(L) /\ Len(Test(k, n)) = 1
      BY <1>1, <1>2 DEF Test
<1> QED BY <1>3, <1>4, <1>5 DEF L

\* Two scripts in a row.
LEMMA Together2 ==
  ASSUME NEW L, NEW x \in Seq(L), NEW y \in Seq(L)
  PROVE  x \o y \in Seq(L) /\ Len(x \o y) = Len(x) + Len(y)
OBVIOUS

\* A script is made of its operation's kinds of rows and of the services it asks.
LEMMA ScriptIsTyped ==
  ASSUME ApiAssumption, NEW q \in Requests
  PROVE  Script(q) \in Seq(Statements(Kinds[q.op], Services(q.op)))
<1> DEFINE K == Kinds[q.op]
           V == Services(q.op)
           L == Statements(K, V)
           n == q.items
<1>1. n \in Nat /\ q.op \in Operations
        /\ {"active", "completed", "computed", "delivered", "fetched", "open", "pending", "processing", "queued",
            "ready", "retrieved", "running", "stored", "suppressed", "synchronized"} \subseteq Statuses
      BY DEF ApiAssumption, Statuses
<1>2. \A a, b \in Seq(L) : a \o b \in Seq(L) /\ Len(a \o b) = Len(a) + Len(b)
      OBVIOUS
<1>3. ASSUME NEW b \in [1 .. n -> Seq(L)], NEW m \in 1 .. 3, \A i \in 1 .. n : Len(b[i]) = m
      PROVE  FlattenSeq(b) \in Seq(L)
  <2>1. b \in Seq(Seq(L)) /\ Len(b) = n
        BY <1>1
  <2> QED BY <1>3, <2>1, Flattened
<1> HIDE DEF L
<1>4. /\ \A k \in K, i \in Nat, s \in Statuses : Put(k, i, s) \in Seq(L) /\ Len(Put(k, i, s)) = 1
      /\ \A k \in V : Ask(k) \in Seq(L) /\ Len(Ask(k)) = 1
      /\ \A k \in {"item", "never"}, i \in Nat : Test(k, i) \in Seq(L) /\ Len(Test(k, i)) = 1
      BY OneStatement DEF L
<1>5. \A k \in K, s \in Statuses : For(n, LAMBDA i : Put(k, i, s)) \in Seq(L)
  <2> TAKE k \in K, s \in Statuses
  <2> DEFINE b == [i \in 1 .. n |-> Put(k, i, s)]
  <2>1. b \in [1 .. n -> Seq(L)] /\ \A i \in 1 .. n : Len(b[i]) = 1
        BY <1>4
  <2> HIDE DEF b
  <2>2. FlattenSeq(b) \in Seq(L)
        BY <1>3, <2>1
  <2> QED BY <2>2 DEF For, b
<1>6. \A k \in K, s \in Statuses, t \in {"item", "never"} :
         For(n, LAMBDA i : Test(t, i) \o Put(k, i, s)) \in Seq(L)
  <2> TAKE k \in K, s \in Statuses, t \in {"item", "never"}
  <2> DEFINE b == [i \in 1 .. n |-> Test(t, i) \o Put(k, i, s)]
  <2>1. ASSUME NEW i \in 1 .. n PROVE Test(t, i) \o Put(k, i, s) \in Seq(L) /\ Len(Test(t, i) \o Put(k, i,
                   s)) = 2
    <3> DEFINE x == Test(t, i)
               y == Put(k, i, s)
    <3>1. x \in Seq(L) /\ y \in Seq(L)
          BY <1>1, <1>4
    <3>2. Len(x) = 1 /\ Len(y) = 1
          BY <1>1, <1>4
    <3> HIDE DEF x, y
    <3>3. x \o y \in Seq(L) /\ Len(x \o y) = Len(x) + Len(y)
          BY <3>1, Together2
    <3>4. Len(x \o y) = 2
          BY <3>2, <3>3
    <3> QED BY <3>3, <3>4, Zenon DEF x, y
  <2>2. b \in [1 .. n -> Seq(L)] /\ \A i \in 1 .. n : Len(b[i]) = 2
        BY <2>1
  <2> HIDE DEF b
  <2>3. FlattenSeq(b) \in Seq(L)
        BY <1>3, <2>2
  <2> QED BY <2>3 DEF For, b
<1>35. {"thread", "message"} \subseteq K /\ {"header"} \subseteq V =>
        For(n, LAMBDA i : Ask("header") \o Put("thread", i, "active") \o Put("message", i,
        "synchronized")) \in Seq(L)
  <2> SUFFICES ASSUME {"thread", "message"} \subseteq K, {"header"} \subseteq V
               PROVE  For(n, LAMBDA i : Ask("header") \o Put("thread", i, "active") \o Put("message", i,
                      "synchronized")) \in Seq(L)
      OBVIOUS
  <2> DEFINE b == [i \in 1 .. n |-> Ask("header") \o Put("thread", i, "active") \o Put("message", i,
             "synchronized")]
  <2>1. ASSUME NEW i \in 1 .. n PROVE Ask("header") \o Put("thread", i, "active") \o Put("message", i,
                   "synchronized") \in Seq(L)
                     /\ Len(Ask("header") \o Put("thread", i, "active") \o Put("message", i,
                        "synchronized")) = 3
    <3> DEFINE x == Ask("header")
               y == Put("thread", i, "active")
               z == Put("message", i, "synchronized")
    <3>1. x \in Seq(L) /\ y \in Seq(L) /\ z \in Seq(L)
          BY <1>1, <1>4
    <3>2. Len(x) = 1 /\ Len(y) = 1 /\ Len(z) = 1
          BY <1>1, <1>4
    <3> HIDE DEF x, y, z
    <3>3. x \o y \in Seq(L) /\ Len(x \o y) = Len(x) + Len(y)
          BY <3>1, Together2
    <3>4. x \o y \o z \in Seq(L) /\ Len(x \o y \o z) = Len(x \o y) + Len(z)
          BY <3>1, <3>3, Together2
    <3>5. Len(x \o y \o z) = 3
          BY <3>2, <3>3, <3>4
    <3> QED BY <3>4, <3>5, Zenon DEF x, y, z
  <2>2. b \in [1 .. n -> Seq(L)] /\ \A i \in 1 .. n : Len(b[i]) = 3
        BY <2>1
  <2> HIDE DEF b
  <2>3. FlattenSeq(b) \in Seq(L)
        BY <1>3, <2>2
  <2> QED BY <2>3 DEF For, b
<1> SUFFICES Script(q) \in Seq(L)
    BY DEF L
<1> HIDE DEF K, V
<1>7. CASE q.op = "upload"
  <2>1. Script(q) = Upload(q) /\ {"file", "job", "document", "content"} \subseteq K /\ {"extractor"} \subseteq V
        BY <1>7 DEF Script, Kinds, Services, K, V
  <2> QED BY <1>1, <1>2, <1>4, <2>1 DEF Upload, n
<1>8. CASE q.op = "search"
  <2>1. Script(q) = SearchWeb(q) /\ {"query", "result"} \subseteq K /\ {"search"} \subseteq V
        BY <1>8 DEF Script, Kinds, Services, K, V
  <2>2. For(n, LAMBDA i : Put("result", i, "retrieved")) \in Seq(L)
        BY <1>1, <1>5, <2>1
  <2>3. SearchWeb(q) \in Seq(L)
        BY <1>1, <1>2, <1>4, <2>1, <2>2 DEF SearchWeb, n
  <2> QED BY <2>1, <2>3
<1>9. CASE q.op = "fetch"
  <2>1. Script(q) = Fetch(q) /\ {"page"} \subseteq K /\ {"fetch"} \subseteq V
        BY <1>9 DEF Script, Kinds, Services, K, V
  <2> QED BY <1>1, <1>2, <1>4, <2>1 DEF Fetch, n
<1>10. CASE q.op = "crawl"
  <2>1. Script(q) = Crawl(q) /\ {"page", "crawl"} \subseteq K /\ {"fetch"} \subseteq V
        BY <1>10 DEF Script, Kinds, Services, K, V
  <2> QED BY <1>1, <1>2, <1>4, <2>1 DEF Crawl, Fetch, n
<1>11. CASE q.op = "download"
  <2>1. Script(q) = Download(q) /\ {"file", "download"} \subseteq K /\ {"fetch"} \subseteq V
        BY <1>11 DEF Script, Kinds, Services, K, V
  <2> QED BY <1>1, <1>2, <1>4, <2>1 DEF Download, n
<1>12. CASE q.op = "plan"
  <2>1. Script(q) = BuildPlan(q) /\ {"plan", "step", "risk"} \subseteq K
        BY <1>12 DEF Script, Kinds, Services, K, V
  <2>2. For(n, LAMBDA i : Put("step", i, "pending")) \in Seq(L)
          /\ For(n, LAMBDA i : Put("risk", i, "open")) \in Seq(L)
        BY <1>1, <1>5, <2>1
  <2>3. BuildPlan(q) \in Seq(L)
        BY <1>1, <1>2, <1>4, <2>1, <2>2 DEF BuildPlan, n
  <2> QED BY <2>1, <2>3
<1>18. CASE q.op = "restore"
  <2>1. Script(q) = Restore(q) /\ {"project"} \subseteq K
        BY <1>18 DEF Script, Kinds, Services, K, V
  <2>2. For(n, LAMBDA i : Test("item", i) \o Put("project", i, "active")) \in Seq(L)
        BY <1>1, <1>6, <2>1
  <2>3. Restore(q) \in Seq(L)
        BY <1>1, <1>2, <1>4, <2>1, <2>2 DEF Restore, n
  <2> QED BY <2>1, <2>3
<1>19. CASE q.op = "notify"
  <2>1. Script(q) = Notify(q) /\ {"notice", "delivery"} \subseteq K /\ {"mail"} \subseteq V
        BY <1>19 DEF Script, Kinds, Services, K, V
  <2> QED BY <1>1, <1>2, <1>4, <2>1 DEF Notify, Delivery, n
<1>20. CASE q.op = "deliver"
  <2>1. Script(q) = Delivery(q) /\ {"notice", "delivery"} \subseteq K /\ {"mail"} \subseteq V
        BY <1>20 DEF Script, Kinds, Services, K, V
  <2>2. /\ Put("delivery", 1, "suppressed") \in Seq(L) /\ Put("delivery", 1, "delivered") \in Seq(L)
        /\ Put("notice", 1, "delivered") \in Seq(L) /\ Ask("mail") \in Seq(L) /\ Test("never", 0) \in Seq(L)
        BY <1>1, <1>4, <2>1
  <2> QED BY <1>2, <2>1, <2>2 DEF Delivery, n
<1>28. CASE q.op = "generate"
  <2>1. Script(q) = Generate(q) /\ {"request", "response"} \subseteq K /\ {"model"} \subseteq V
        BY <1>28 DEF Script, Kinds, Services, K, V
  <2> QED BY <1>1, <1>2, <1>4, <2>1 DEF Generate, n
<1>29. CASE q.op = "aggregate"
  <2>1. Script(q) = Aggregate(q) /\ {"metric", "point", "aggregate"} \subseteq K
        BY <1>29 DEF Script, Kinds, Services, K, V
  <2>2. For(n, LAMBDA i : Put("point", i, "computed")) \in Seq(L)
        BY <1>1, <1>5, <2>1
  <2>3. Aggregate(q) \in Seq(L)
        BY <1>1, <1>2, <1>4, <2>1, <2>2 DEF Aggregate, n
  <2> QED BY <2>1, <2>3
<1>30. CASE q.op = "sync"
  <2>1. Script(q) = Sync(q) /\ {"thread", "message", "account"} \subseteq K /\ {"header", "mailbox"} \subseteq V
        BY <1>30 DEF Script, Kinds, Services, K, V
  <2>2. For(n, LAMBDA i : Ask("header") \o Put("thread", i, "active") \o Put("message", i,
        "synchronized")) \in Seq(L)
        BY <1>1, <1>35, <2>1
  <2>3. Sync(q) \in Seq(L)
        BY <1>1, <1>2, <1>4, <2>1, <2>2 DEF Sync, n
  <2> QED BY <2>1, <2>3
<1>31. CASE q.op = "sync_task"
  <2>1. Script(q) = Sync(q) /\ {"thread", "message", "account"} \subseteq K /\ {"header", "mailbox"} \subseteq V
        BY <1>31 DEF Script, Kinds, Services, K, V
  <2>2. For(n, LAMBDA i : Ask("header") \o Put("thread", i, "active") \o Put("message", i,
        "synchronized")) \in Seq(L)
        BY <1>1, <1>35, <2>1
  <2>3. Sync(q) \in Seq(L)
        BY <1>1, <1>2, <1>4, <2>1, <2>2 DEF Sync, n
  <2> QED BY <2>1, <2>3
<1> QED BY <1>1, <1>7, <1>8, <1>9, <1>10, <1>11, <1>12, <1>18, <1>19, <1>20, <1>28, <1>29, <1>30, <1>31
          DEF Operations

-----------------------------------------------------------------------------
(* The inductive invariant of the operations. *)

AllKinds == UNION {Kinds[op] : op \in Operations}
Written  == [do : {"put"}, kind : AllKinds, n : Nat, status : Statuses]
Rows     == [call : Calls, kind : AllKinds, n : Nat, status : Statuses]
Syncs    == {"sync", "sync_task"}

\* The rows of statements m to k.
Puts(q, m, k) == {Script(q)[i] : i \in {j \in m .. k : Script(q)[j].do = "put"}}

\* None of the statements up to k writes the row of statement i again.
Latest(q, i, k) ==
  \A j \in i + 1 .. k :
    Script(q)[j].do = "put" => <<Script(q)[j].kind, Script(q)[j].n>> # <<Script(q)[i].kind, Script(q)[i].n>>

\* The first statement of the transaction, and the last that has been committed.
First(q)     == IF q.op = "notify" THEN 2 ELSE 1
Committed(q, now) == IF now \in Together(q) THEN First(q) - 1 ELSE now - 1

\* What a task begins with, and what the failure of a service leaves.
Early(q)  == IF q.op = "deliver" THEN ToSet(Put("notice", 1, "queued")) ELSE {}
Failed(s, q, now) == s = "done" /\ now \in DOMAIN Script(q) /\ Script(q)[now].do = "ask"
Late(s, q, now)   == IF Failed(s, q, now) THEN ToSet(Told(Script(q)[now].kind)) ELSE {}

\* Every row of the call comes from a statement up to k, or from one of extra.
Sourced(c, q, k, extra, table) ==
  \A r \in table :
    r.call = c => /\ r.kind \in Kinds[q.op]
                  /\ \E p \in Puts(q, 1, k) \cup extra : r = Row(c, p)

\* What a statement up to k wrote is there, unless a later one replaced it.
Standing(c, q, k, table) ==
  \A i \in 1 .. k : Script(q)[i].do = "put" /\ Latest(q, i, k) => Row(c, Script(q)[i]) \in table

Thread(n) == [do |-> "put", kind |-> "thread", n |-> n, status |-> "active"]

\* A message has its thread, and then the account is there as well.
Threaded(c, table) ==
  \A r \in table :
    r.call = c /\ r.kind = "message" =>
      Row(c, Thread(r.n)) \in table /\ \E s \in table : s.call = c /\ s.kind = "account"

RowsGood(c, q, k, fell, extra, table) ==
  /\ Sourced(c, q, k, extra, table)
  /\ q.op \notin Syncs /\ ~ fell => Standing(c, q, k, table)
  /\ q.op \in Syncs => Threaded(c, table)

\* The transaction holds what its statements so far have written; a mailbox's may have skipped some.
PendingGood(q, now, pending) ==
  IF now \in Together(q)
  THEN /\ pending \subseteq Puts(q, First(q), now - 1)
       /\ q.op \notin Syncs => Puts(q, First(q), now - 1) \subseteq pending
       /\ q.op \in Syncs =>
            /\ \A p \in pending : p.kind = "message" => Thread(p.n) \in pending
            /\ Script(q)[now].do = "put"
                 /\ Script(q)[now].kind = "message" => Thread(Script(q)[now].n) \in pending
  ELSE pending = {}

MailGood(c, q, now, sent) ==
  \A i \in 1 .. now - 1 : Script(q)[i].do = "ask" /\ Script(q)[i].kind = "mail" => c \in sent

ApiTypes ==
  /\ served \in [Calls -> {"no", "yes", "done"}]
  /\ what \in [Calls -> Requests \cup {Idle}]
  /\ line \in [Calls -> Nat]
  /\ open \in [Calls -> SUBSET Written]
  /\ rows \subseteq Rows
  /\ tries \in [Calls -> Nat]

\* A call and what is stored of it.
CallGood(c, s, q, now, pending, table, sent) ==
  IF s = "no"
  THEN q = Idle /\ now = 1 /\ pending = {} /\ \A r \in table : r.call # c
  ELSE /\ q \in Requests /\ now \in 1 .. Len(Script(q)) + 1
       /\ RowsGood(c, q, Committed(q, now), Failed(s, q, now), Early(q) \cup Late(s, q, now), table)
       /\ IF s = "yes" THEN PendingGood(q, now, pending) ELSE pending = {}
       /\ MailGood(c, q, now, sent)

CallInv(c) == CallGood(c, served[c], what[c], line[c], open[c], rows, mails)

\* The inductive invariant: rows and open transactions are what the statements so far have written.
ApiInv == ApiTypes /\ \A c \in Calls : CallInv(c)

\* The greatest number of an interval.
LEMMA MaxOf ==
  ASSUME NEW m \in Nat, NEW n \in Nat, m <= n
  PROVE  Max(m .. n) = n
<1>1. n \in m .. n /\ \A y \in m .. n : n >= y
      OBVIOUS
<1>2. \A x \in m .. n : (\A y \in m .. n : x >= y) => x = n
      OBVIOUS
<1> QED BY <1>1, <1>2 DEF Max

\* A transaction takes the script from its first statement on.
LEMMA TogetherIs ==
  ASSUME ApiAssumption, NEW q \in Requests
  PROVE  /\ Script(q) \in Seq(Statements(Kinds[q.op], Services(q.op)))
         /\ First(q) \in {1, 2} /\ (First(q) = 2 <=> q.op = "notify")
         /\ Together(q) # {} => /\ Together(q) = First(q) .. Len(Script(q))
                                /\ First(q) <= Len(Script(q)) /\ Max(Together(q)) = Len(Script(q))
         /\ q.op \in {"plan", "aggregate", "restore", "deliver"} \cup Syncs => Together(q) = 1 .. Len(Script(q))
         /\ q.op = "notify" => Together(q) = 2 .. Len(Script(q))
<1> DEFINE L == Script(q)
           n == Len(L)
<1>1. L \in Seq(Statements(Kinds[q.op], Services(q.op)))
      BY ScriptIsTyped
<1>2. n \in Nat /\ DOMAIN L = 1 .. n
      BY <1>1
<1> HIDE DEF L
<1>3. /\ q.op \in {"plan", "restore", "deliver", "sync", "sync_task", "aggregate"} => Together(q) = 1 .. n
      /\ q.op = "notify" => Together(q) = 2 .. n
      /\ q.op \notin {"plan", "restore", "deliver", "sync", "sync_task", "aggregate",
         "notify"} => Together(q) = {}
      BY <1>2 DEF Together, L
<1>4. First(q) \in {1, 2} /\ (First(q) = 2 <=> q.op = "notify")
      BY DEF First
<1>5. Together(q) # {} => Together(q) = First(q) .. n /\ First(q) <= n
      BY <1>2, <1>3, <1>4
<1>6. Together(q) # {} => Max(Together(q)) = n
      BY <1>2, <1>4, <1>5, MaxOf
<1> QED BY <1>1, <1>3, <1>4, <1>5, <1>6 DEF L, Syncs

-----------------------------------------------------------------------------
\* Storing what the statements up to k2 have written, after what those up to k have.
LEMMA StoringKeeps ==
  ASSUME NEW c, NEW q, NEW k \in Nat, NEW k2 \in Nat, k <= k2, NEW fell, NEW extra, NEW table, NEW puts,
         Sourced(c, q, k, extra, table), puts \subseteq Puts(q, k + 1, k2),
         \A p \in puts : p.kind \in Kinds[q.op]
  PROVE  /\ Sourced(c, q, k2, extra, Stored(table, c, puts))
         /\ puts = Puts(q, k + 1, k2) /\ Standing(c, q, k, table) => Standing(c, q, k2, Stored(table, c, puts))
<1> DEFINE L == Script(q)
           t == Stored(table, c, puts)
<1>1. ASSUME NEW r \in t
      PROVE  r \in table \/ \E p \in puts : r = Row(c, p)
      BY DEF Stored
<1>2. \A p \in puts : Row(c, p).call = c /\ Row(c, p).kind = p.kind /\ Row(c, p).n = p.n
      BY DEF Row
<1>3. Puts(q, 1, k) \subseteq Puts(q, 1, k2) /\ Puts(q, k + 1, k2) \subseteq Puts(q, 1, k2)
      BY DEF Puts
<1>4. Sourced(c, q, k2, extra, t)
  <2> SUFFICES ASSUME NEW r \in t, r.call = c
               PROVE  /\ r.kind \in Kinds[q.op]
                      /\ \E p \in Puts(q, 1, k2) \cup extra : r = Row(c, p)
      BY DEF Sourced
  <2>1. CASE r \in table
        BY <1>3, <2>1 DEF Sourced
  <2>2. CASE \E p \in puts : r = Row(c, p)
        BY <1>2, <1>3, <2>2
  <2> QED BY <1>1, <2>1, <2>2
<1>5. ASSUME puts = Puts(q, k + 1, k2), Standing(c, q, k, table)
      PROVE  Standing(c, q, k2, t)
  <2> SUFFICES ASSUME NEW i \in 1 .. k2, L[i].do = "put", Latest(q, i, k2)
               PROVE  Row(c, L[i]) \in t
      BY DEF Standing
  <2>1. CASE i \in 1 .. k
    <3>1. Latest(q, i, k)
          BY <2>1 DEF Latest
    <3>2. Row(c, L[i]) \in table
          BY <1>5, <2>1, <3>1 DEF Standing
    <3>3. ASSUME NEW p \in puts PROVE <<L[i].kind, L[i].n>> # <<p.kind, p.n>>
      <4>1. PICK j \in k + 1 .. k2 : p = L[j] /\ L[j].do = "put"
            BY <1>5 DEF Puts
      <4>2. j \in i + 1 .. k2
            BY <2>1
      <4> QED BY <4>1, <4>2 DEF Latest
    <3>4. Row(c, L[i]).kind = L[i].kind /\ Row(c, L[i]).n = L[i].n
          BY DEF Row
    <3> QED BY <3>2, <3>3, <3>4 DEF Stored
  <2>2. CASE i \notin 1 .. k
    <3>1. L[i] \in puts
          BY <1>5, <2>2 DEF Puts
    <3> QED BY <3>1 DEF Stored
  <2> QED BY <2>1, <2>2
<1> QED BY <1>4, <1>5

\* Two tables agree on a call.
Agree(c, t, u) == \A r \in t \cup u : r.call = c => r \in t /\ r \in u

\* What is known of a call stays known over a table that agrees on it.
LEMMA AgreeKeeps ==
  ASSUME NEW c, NEW q, q.op \in Operations, NEW k, NEW fell, NEW extra, NEW t, NEW u, Agree(c, t, u),
         RowsGood(c, q, k, fell, extra, t),
         \A i \in 1 .. k : Script(q)[i].do = "put" => Script(q)[i].kind \in Kinds[q.op]
  PROVE  RowsGood(c, q, k, fell, extra, u)
<1>1. \A r \in t : r.call = c => r.kind \in Kinds[q.op]
      BY DEF RowsGood, Sourced
<1>3. Sourced(c, q, k, extra, u)
      BY <1>1 DEF RowsGood, Sourced, Agree
<1>4. ASSUME q.op \notin Syncs, ~ fell
      PROVE  Standing(c, q, k, u)
  <2> SUFFICES ASSUME NEW i \in 1 .. k, Script(q)[i].do = "put", Latest(q, i, k)
               PROVE  Row(c, Script(q)[i]) \in u
      BY DEF Standing
  <2>1. Row(c, Script(q)[i]) \in t
        BY <1>4 DEF RowsGood, Standing
  <2>2. Row(c, Script(q)[i]).call = c
        BY DEF Row
  <2> QED BY <2>1, <2>2 DEF Agree
<1>5. ASSUME q.op \in Syncs
      PROVE  Threaded(c, u)
  <2> SUFFICES ASSUME NEW r \in u, r.call = c, r.kind = "message"
               PROVE  Row(c, Thread(r.n)) \in u /\ \E s \in u : s.call = c /\ s.kind = "account"
      BY DEF Threaded
  <2>2. r \in t
        BY DEF Agree
  <2>3. Row(c, Thread(r.n)) \in t /\ \E s \in t : s.call = c /\ s.kind = "account"
        BY <1>5, <2>2 DEF RowsGood, Threaded
  <2>4. Row(c, Thread(r.n)).call = c /\ Row(c, Thread(r.n)).kind = "thread"
        BY DEF Row, Thread
  <2> QED BY <2>3, <2>4 DEF Agree
<1> QED BY <1>3, <1>4, <1>5 DEF RowsGood

\* What another call stores is not this call's.
LEMMA StoredElsewhere ==
  ASSUME NEW c, NEW d, c # d, NEW table, NEW puts
  PROVE  Agree(c, table, Stored(table, d, puts))
<1>1. \A p : Row(d, p).call = d
      BY DEF Row
<1>2. \A r \in Stored(table, d, puts) : r \in table \/ \E p \in puts : r = Row(d, p)
      BY DEF Stored
<1>3. \A r \in table : r.call = c => r \in Stored(table, d, puts)
      BY DEF Stored
<1> QED BY <1>1, <1>2, <1>3 DEF Agree

-----------------------------------------------------------------------------
(* Where the statements of a loop lie. *)

PutOf(kind, n, status) == [do |-> "put", kind |-> kind, n |-> n, status |-> status]

PutLoop(n, k, s) == For(n, LAMBDA i : Put(k, i, s))
RestoreLoop(n)   == For(n, LAMBDA i : Test("item", i) \o Put("project", i, "active"))
MailboxLoop(n)   ==
  For(n, LAMBDA i : Ask("header") \o Put("thread", i, "active") \o Put("message", i, "synchronized"))

ItemTest(i) == [do |-> "test", kind |-> "item", n |-> i, status |-> ""]
Header     == [do |-> "ask", kind |-> "header", n |-> 0, status |-> ""]
Message(i) == PutOf("message", i, "synchronized")

Places(F, b, n, m) == \A i \in 1 .. n : \A j \in 1 .. m : F[(i - 1) * m + j] = b[i][j]
\* The same for a function from 1 .. n, as the loops of the scripts are.
LEMMA FlattenedTo ==
  ASSUME NEW K, NEW n \in Nat, NEW m \in 1 .. 3, NEW b \in [1 .. n -> Seq(K)], \A i \in 1 .. n : Len(b[i]) = m
  PROVE  /\ FlattenSeq(b) \in Seq(K)
         /\ Len(FlattenSeq(b)) = n * m
         /\ Places(FlattenSeq(b), b, n, m)
<1>1. b \in Seq(Seq(K))
      OBVIOUS
<1>2. Len(b) = n
      OBVIOUS
<1>3. \A i \in 1 .. Len(b) : Len(b[i]) = m
      BY <1>2
<1>4. /\ FlattenSeq(b) \in Seq(K)
      /\ Len(FlattenSeq(b)) = Len(b) * m
      /\ \A i \in 1 .. Len(b), j \in 1 .. m : FlattenSeq(b)[(i - 1) * m + j] = b[i][j]
      BY <1>1, <1>3, Flattened
<1> QED BY <1>2, <1>4 DEF Places

\* A loop that writes one row for each item.
LEMMA PutLoopIs ==
  ASSUME NEW n \in Nat, NEW k, NEW s
  PROVE  /\ PutLoop(n, k, s) \in Seq([do : {"put"}, kind : {k}, n : Nat, status : {s}])
         /\ Len(PutLoop(n, k, s)) = n /\ \A i \in 1 .. n : PutLoop(n, k, s)[i] = PutOf(k, i, s)
<1> DEFINE T == [do : {"put"}, kind : {k}, n : Nat, status : {s}]
           b == [i \in 1 .. n |-> Put(k, i, s)]
<1>1. \A i \in Nat : PutOf(k, i, s) \in T /\ Put(k, i, s) = <<PutOf(k, i, s)>>
      BY DEF Put, PutOf
<1>2. PutLoop(n, k, s) = FlattenSeq(b)
      BY DEF PutLoop, For
<1> HIDE DEF T
<1>3. ASSUME NEW i \in 1 .. n
      PROVE  b[i] \in Seq(T) /\ Len(b[i]) = 1 /\ b[i][1] = PutOf(k, i, s)
      BY <1>1
<1>4. b \in [1 .. n -> Seq(T)]
      BY <1>3
<1> HIDE DEF b
<1>5. /\ FlattenSeq(b) \in Seq(T) /\ Len(FlattenSeq(b)) = n * 1
      /\ Places(FlattenSeq(b), b, n, 1)
      BY <1>3, <1>4, FlattenedTo
<1>6. ASSUME NEW i \in 1 .. n
      PROVE  FlattenSeq(b)[i] = PutOf(k, i, s)
  <2>1. (i - 1) * 1 + 1 = i /\ 1 \in 1 .. 1
        OBVIOUS
  <2>2. FlattenSeq(b)[(i - 1) * 1 + 1] = b[i][1]
        BY <1>5, <2>1 DEF Places
  <2> QED BY <1>3, <2>1, <2>2
<1>7. n * 1 = n
      OBVIOUS
<1> QED BY <1>2, <1>5, <1>6, <1>7 DEF T

\* A loop that tests an item and then writes it.
LEMMA RestoreLoopIs ==
  ASSUME NEW n \in Nat
  PROVE  /\ Len(RestoreLoop(n)) = 2 * n
         /\ \A i \in 1 .. n : /\ RestoreLoop(n)[2 * i - 1] = ItemTest(i)
                              /\ RestoreLoop(n)[2 * i] = PutOf("project", i, "active")
<1> DEFINE T == [do : {"put", "test"}, kind : {"item", "project"}, n : Nat, status : {"", "active"}]
           x(i) == ItemTest(i)
           y(i) == PutOf("project", i, "active")
           b == [i \in 1 .. n |-> Test("item", i) \o Put("project", i, "active")]
<1>1. \A i \in Nat : /\ x(i) \in T /\ Test("item", i) = <<x(i)>>
                     /\ y(i) \in T /\ Put("project", i, "active") = <<y(i)>>
      BY DEF Put, Test, PutOf, ItemTest
<1>2. RestoreLoop(n) = FlattenSeq(b)
      BY DEF RestoreLoop, For
<1> HIDE DEF T, x, y
<1>3. ASSUME NEW i \in 1 .. n
      PROVE  b[i] \in Seq(T) /\ Len(b[i]) = 2 /\ b[i][1] = x(i) /\ b[i][2] = y(i)
  <2>1. b[i] = Test("item", i) \o Put("project", i, "active")
        OBVIOUS
  <2>2. PICK u \in T, v \in T : u = x(i) /\ v = y(i)
        BY <1>1
  <2>3. Test("item", i) = <<u>> /\ Put("project", i, "active") = <<v>>
        BY <1>1, <2>2
  <2>4. b[i] = <<u>> \o <<v>>
        BY <2>1, <2>3
  <2> HIDE DEF b
  <2> HIDE DEF x, y
  <2>5. /\ <<u>> \o <<v>> \in Seq(T) /\ Len(<<u>> \o <<v>>) = 2
        /\ (<<u>> \o <<v>>)[1] = u /\ (<<u>> \o <<v>>)[2] = v
        OBVIOUS
  <2> QED BY <2>2, <2>4, <2>5
<1>4. b \in [1 .. n -> Seq(T)]
      BY <1>3
<1> HIDE DEF b
<1>8. 2 \in 1 .. 3 /\ \A i \in 1 .. n : Len(b[i]) = 2
      BY <1>3
<1>5. /\ FlattenSeq(b) \in Seq(T) /\ Len(FlattenSeq(b)) = n * 2
      /\ Places(FlattenSeq(b), b, n, 2)
      BY <1>4, <1>8, FlattenedTo
<1>6. ASSUME NEW i \in 1 .. n
      PROVE  FlattenSeq(b)[2 * i - 1] = x(i) /\ FlattenSeq(b)[2 * i] = y(i)
  <2>1. (i - 1) * 2 + 1 = 2 * i - 1 /\ (i - 1) * 2 + 2 = 2 * i /\ 1 \in 1 .. 2 /\ 2 \in 1 .. 2
        OBVIOUS
  <2>2. FlattenSeq(b)[(i - 1) * 2 + 1] = b[i][1] /\ FlattenSeq(b)[(i - 1) * 2 + 2] = b[i][2]
        BY <1>5, <2>1 DEF Places
  <2> QED BY <1>3, <2>1, <2>2
<1>7. n * 2 = 2 * n
      OBVIOUS
<1> QED BY <1>2, <1>5, <1>6, <1>7 DEF x, y

\* A loop that reads a header and writes its thread and its message.
LEMMA MailboxLoopIs ==
  ASSUME NEW n \in Nat
  PROVE  /\ MailboxLoop(n) \in Seq(Statements({"thread", "message"}, {"header"}))
         /\ Len(MailboxLoop(n)) = 3 * n
         /\ \A i \in 1 .. n : /\ MailboxLoop(n)[3 * i - 2] = Header
                              /\ MailboxLoop(n)[3 * i - 1] = Thread(i)
                              /\ MailboxLoop(n)[3 * i] = Message(i)
<1> DEFINE T == Statements({"thread", "message"}, {"header"})
           b == [i \in 1 .. n |-> Ask("header") \o Put("thread", i, "active") \o Put("message", i,
           "synchronized")]
<1>0. Header \in T /\ \A i \in Nat : Thread(i) \in T /\ Message(i) \in T
      BY DEF Header, Thread, Message, PutOf, Statements, Statuses
<1>1. \A i : /\ Ask("header") = <<Header>> /\ Put("thread", i, "active") = <<Thread(i)>>
             /\ Put("message", i, "synchronized") = <<Message(i)>>
      BY DEF Put, Ask, PutOf, Header, Thread, Message
<1>2. MailboxLoop(n) = FlattenSeq(b)
      BY DEF MailboxLoop, For
<1> HIDE DEF T
<1>3. ASSUME NEW i \in 1 .. n
      PROVE  b[i] \in Seq(T) /\ Len(b[i]) = 3 /\ b[i][1] = Header /\ b[i][2] = Thread(i) /\ b[i][3] = Message(i)
  <2>1. b[i] = <<Header>> \o <<Thread(i)>> \o <<Message(i)>>
        BY <1>1
  <2>2. Header \in T /\ Thread(i) \in T /\ Message(i) \in T
        BY <1>0
  <2> HIDE DEF b
  <2>3. b[i] \in Seq(T)
        BY <2>1, <2>2
  <2>4. Len(b[i]) = 3 /\ b[i][1] = Header /\ b[i][2] = Thread(i) /\ b[i][3] = Message(i)
        BY <2>1, <2>2
  <2> QED BY <2>3, <2>4
<1>4. b \in [1 .. n -> Seq(T)]
      BY <1>3
<1> HIDE DEF b
<1>8. 3 \in 1 .. 3 /\ \A i \in 1 .. n : Len(b[i]) = 3
      BY <1>3
<1>5. /\ FlattenSeq(b) \in Seq(T) /\ Len(FlattenSeq(b)) = n * 3
      /\ Places(FlattenSeq(b), b, n, 3)
      BY <1>4, <1>8, FlattenedTo
<1>6. ASSUME NEW i \in 1 .. n
      PROVE  /\ FlattenSeq(b)[3 * i - 2] = Header /\ FlattenSeq(b)[3 * i - 1] = Thread(i)
             /\ FlattenSeq(b)[3 * i] = Message(i)
  <2>1. /\ (i - 1) * 3 + 1 = 3 * i - 2 /\ (i - 1) * 3 + 2 = 3 * i - 1 /\ (i - 1) * 3 + 3 = 3 * i
        /\ 1 \in 1 .. 3 /\ 2 \in 1 .. 3 /\ 3 \in 1 .. 3
        OBVIOUS
  <2>2. /\ FlattenSeq(b)[(i - 1) * 3 + 1] = b[i][1] /\ FlattenSeq(b)[(i - 1) * 3 + 2] = b[i][2]
        /\ FlattenSeq(b)[(i - 1) * 3 + 3] = b[i][3]
        BY <1>5, <2>1 DEF Places
  <2> QED BY <1>3, <2>1, <2>2
<1>7. n * 3 = 3 * n
      OBVIOUS
<1> QED BY <1>2, <1>5, <1>6, <1>7 DEF T

\* A message follows its thread and its header; the account is the last.
LEMMA MailboxOrder ==
  ASSUME ApiAssumption, NEW q \in Requests, q.op \in Syncs
  PROVE  LET L == Script(q) IN
         /\ L[Len(L)].do = "put" /\ L[Len(L)].kind = "account"
         /\ \A j \in 1 .. Len(L) :
              /\ L[j].do = "put" /\ L[j].kind = "message" => j > 1 /\ j < Len(L) /\ L[j - 1] = Thread(L[j].n)
              /\ L[j].do = "ask" /\ L[j].kind = "header" =>
                   /\ j + 3 <= Len(L) /\ L[j + 1].do = "put"
                   /\ L[j + 2].do = "put" /\ L[j + 2].kind = "message"
<1> DEFINE n == q.items
           F == MailboxLoop(n)
           T == Statements({"thread", "message", "account"}, {"header", "mailbox"})
           first == [do |-> "ask", kind |-> "mailbox", n |-> 0, status |-> ""]
           last  == PutOf("account", 1, "active")
           L == Script(q)
<1>1. n \in Nat
      BY DEF ApiAssumption
<1>2. L = <<first>> \o F \o <<last>>
      BY DEF Script, Sync, MailboxLoop, Ask, Put, PutOf, Syncs
<1>3. first \in T /\ last \in T
      BY DEF PutOf, Statements, Statuses
<1>4. /\ F \in Seq(T) /\ Len(F) = 3 * n
      /\ \A i \in 1 .. n : /\ F[3 * i - 2] = Header /\ F[3 * i - 1] = Thread(i)
                           /\ F[3 * i] = Message(i)
  <2>1. Statements({"thread", "message"}, {"header"}) \subseteq T
        BY DEF Statements
  <2>2. F \in Seq(Statements({"thread", "message"}, {"header"}))
        BY <1>1, MailboxLoopIs
  <2>3. F \in Seq(T)
        BY <2>1, <2>2
  <2> QED BY <1>1, <2>3, MailboxLoopIs
<1> HIDE DEF T, F, L, first, last, n
<1>5. /\ Len(L) = 3 * n + 2 /\ L[1] = first /\ L[3 * n + 2] = last
      /\ \A i \in 1 .. 3 * n : L[i + 1] = F[i]
      BY <1>1, <1>2, <1>3, <1>4
<1>6. \A i \in 1 .. n : /\ L[3 * i - 1] = Header /\ L[3 * i] = Thread(i)
                        /\ L[3 * i + 1] = Message(i)
  <2> TAKE i \in 1 .. n
  <2>1. /\ 3 * i - 2 \in 1 .. 3 * n /\ 3 * i - 1 \in 1 .. 3 * n /\ 3 * i \in 1 .. 3 * n
        /\ 3 * i - 2 + 1 = 3 * i - 1 /\ 3 * i - 1 + 1 = 3 * i
        BY <1>1
  <2> QED BY <1>4, <1>5, <2>1
<1>7. /\ first.do = "ask" /\ first.kind = "mailbox" /\ last.do = "put" /\ last.kind = "account"
      /\ Header.do = "ask" /\ Header.kind = "header"
      /\ \A i : Thread(i).do = "put" /\ Thread(i).kind = "thread"
      /\ \A i : LET p == Message(i) IN p.do = "put" /\ p.kind = "message" /\ p.n = i
      BY DEF first, last, Header, Thread, Message, PutOf
<1>8. ASSUME NEW j \in 1 .. Len(L)
      PROVE  /\ L[j].do = "put" /\ L[j].kind = "message" => j > 1 /\ j < Len(L) /\ L[j - 1] = Thread(L[j].n)
             /\ L[j].do = "ask" /\ L[j].kind = "header" =>
                  /\ j + 3 <= Len(L) /\ L[j + 1].do = "put"
                  /\ L[j + 2].do = "put" /\ L[j + 2].kind = "message"
  <2>1. (j = 1) \/ (j = 3 * n + 2) \/ \E i \in 1 .. n : (j = 3 * i - 1) \/ (j = 3 * i) \/ (j = 3 * i + 1)
    <3>1. j \in 1 .. 3 * n + 2
          BY <1>5
    <3>2. ASSUME j # 1, j # 3 * n + 2
          PROVE  \E i \in 1 .. n : (j = 3 * i - 1) \/ (j = 3 * i) \/ (j = 3 * i + 1)
      <4> DEFINE i == (j + 1) \div 3
      <4>1. j \in 2 .. 3 * n + 1
            BY <1>1, <3>1, <3>2
      <4>2. i \in 1 .. n /\ 3 * i <= j + 1 /\ j + 1 <= 3 * i + 2
            BY <1>1, <4>1
      <4> HIDE DEF i
      <4>3. (j = 3 * i - 1) \/ (j = 3 * i) \/ (j = 3 * i + 1)
            BY <4>1, <4>2
      <4> QED BY <4>2, <4>3
    <3> QED BY <3>2
  <2>2. CASE j = 1 \/ j = 3 * n + 2
        BY <1>5, <1>7, <2>2
  <2>3. CASE \E i \in 1 .. n : j = 3 * i - 1
    <3>1. PICK i \in 1 .. n : j = 3 * i - 1
          BY <2>3
    <3>2. j + 1 = 3 * i /\ j + 2 = 3 * i + 1 /\ j + 3 <= Len(L)
          BY <1>1, <1>5, <3>1
    <3> QED BY <1>6, <1>7, <3>1, <3>2
  <2>4. CASE \E i \in 1 .. n : j = 3 * i
        BY <1>6, <1>7, <2>4
  <2>5. CASE \E i \in 1 .. n : j = 3 * i + 1
    <3>1. PICK i \in 1 .. n : j = 3 * i + 1
          BY <2>5
    <3>2. j - 1 = 3 * i /\ j > 1 /\ j < Len(L)
          BY <1>1, <1>5, <3>1
    <3> QED BY <1>6, <1>7, <3>1, <3>2
  <2> QED BY <2>1, <2>2, <2>3, <2>4, <2>5
<1> QED BY <1>5, <1>7, <1>8 DEF L

-----------------------------------------------------------------------------
(* What a step of a call does to what is known of it. *)

\* What a statement of a script can be.
LEMMA StatementIs ==
  ASSUME ApiAssumption, NEW q \in Requests, NEW i \in 1 .. Len(Script(q))
  PROVE  /\ Script(q)[i].do \in {"put", "ask", "test"}
         /\ Script(q)[i].do = "put" => Script(q)[i] \in Written /\ Script(q)[i].kind \in Kinds[q.op]
         /\ Script(q)[i].do = "ask" => Script(q)[i].kind \in Services(q.op)
<1> DEFINE x == Script(q)[i]
<1>1. x \in Statements(Kinds[q.op], Services(q.op))
  <2>1. Script(q) \in Seq(Statements(Kinds[q.op], Services(q.op)))
        BY TogetherIs
  <2> QED BY <2>1
<1>2. q.op \in Operations
      BY DEF ApiAssumption
<1> HIDE DEF x
<1>3. /\ x.do \in {"put", "ask", "test"}
      /\ x.do = "put" => x \in [do : {"put"}, kind : Kinds[q.op], n : Nat, status : Statuses]
      /\ x.do = "ask" => x.kind \in Services(q.op)
      BY <1>1 DEF Statements
<1>4. Kinds[q.op] \subseteq AllKinds
      BY <1>2 DEF AllKinds
<1>5. x.do = "put" => x \in Written /\ x.kind \in Kinds[q.op]
      BY <1>3, <1>4 DEF Written
<1> QED BY <1>3, <1>5 DEF x

\* The rows of statements that lie in the script.
LEMMA PutsAre ==
  ASSUME ApiAssumption, NEW q \in Requests, NEW m \in Nat, m >= 1, NEW k \in Nat, k <= Len(Script(q))
  PROVE  /\ Puts(q, m, k) \subseteq Written
         /\ \A p \in Puts(q, m, k) : p.do = "put" /\ p.kind \in Kinds[q.op]
         /\ \A i \in m .. k : Script(q)[i].do = "put" => Script(q)[i].kind \in Kinds[q.op]
<1>1. Len(Script(q)) \in Nat
      BY TogetherIs
<1>2. \A i \in m .. k : i \in 1 .. Len(Script(q))
      BY <1>1
<1> QED BY <1>2, StatementIs DEF Puts

\* A call that does nothing: other calls change the table, and more mails leave.
LEMMA AgreeCall ==
  ASSUME ApiAssumption, NEW c, NEW s, NEW q, NEW now, NEW pending, NEW t, NEW u, NEW sent, NEW sent2,
         CallGood(c, s, q, now, pending, t, sent), Agree(c, t, u), sent \subseteq sent2
  PROVE  CallGood(c, s, q, now, pending, u, sent2)
<1>1. CASE s = "no"
      BY <1>1 DEF CallGood, Agree
<1>2. CASE s # "no"
  <2>1. q \in Requests /\ q.op \in Operations /\ now \in 1 .. Len(Script(q)) + 1
        BY <1>2 DEF CallGood, ApiAssumption
  <2>2. Committed(q, now) \in Nat /\ Committed(q, now) <= Len(Script(q))
        BY <2>1, TogetherIs DEF Committed
  <2>3. \A i \in 1 .. Committed(q, now) : Script(q)[i].do = "put" => Script(q)[i].kind \in Kinds[q.op]
    <3> DEFINE k == Committed(q, now)
    <3> HIDE DEF k
    <3>1. k \in Nat /\ k <= Len(Script(q))
          BY <2>2 DEF k
    <3>2. \A i \in 1 .. k : Script(q)[i].do = "put" => Script(q)[i].kind \in Kinds[q.op]
          BY <2>1, <3>1, PutsAre
    <3> QED BY <3>2 DEF k
  <2>4. RowsGood(c, q, Committed(q, now), Failed(s, q, now), Early(q) \cup Late(s, q, now), u)
        BY <1>2, <2>1, <2>3, AgreeKeeps DEF CallGood
  <2>5. MailGood(c, q, now, sent2)
        BY <1>2 DEF CallGood, MailGood
  <2> QED BY <1>2, <2>1, <2>4, <2>5 DEF CallGood
<1> QED BY <1>1, <1>2

\* The single row of a statement.
LEMMA PutIs ==
  ASSUME NEW k, NEW n, NEW s
  PROVE  ToSet(Put(k, n, s)) = {PutOf(k, n, s)}
BY DEF ToSet, Put, PutOf

\* Before its first statement a script has written nothing.
LEMMA NothingYet ==
  ASSUME ApiAssumption, NEW q \in Requests
  PROVE  Committed(q, 1) = 0 /\ PendingGood(q, 1, {}) /\ Puts(q, 1, 0) = {} /\ Len(Script(q)) \in Nat
<1> DEFINE n == Len(Script(q))
<1>1. n \in Nat
      BY TogetherIs
<1>2. 1 \in Together(q) => First(q) = 1 /\ 1 <= n
      BY <1>1, TogetherIs
<1>3. Puts(q, 1, 0) = {}
      BY DEF Puts
<1>4. ASSUME q.op \in Syncs, 1 <= n, Script(q)[1].do = "put", Script(q)[1].kind = "message"
      PROVE  FALSE
      BY <1>1, <1>4, MailboxOrder
<1>5. PendingGood(q, 1, {})
      BY <1>2, <1>3, <1>4 DEF PendingGood
<1>6. Committed(q, 1) = 0
      BY <1>2 DEF Committed
<1> QED BY <1>1, <1>3, <1>5, <1>6

\* A call begins; a delivery finds the notice it is about.
LEMMA Begins ==
  ASSUME ApiAssumption, NEW c, NEW q \in Requests, NEW t, NEW sent, \A r \in t : r.call # c
  PROVE  CallGood(c, "yes", q, 1, {}, IF q.op = "deliver" THEN Stored(t, c, ToSet(Put("notice", 1,
         "queued"))) ELSE t, sent)
<1> DEFINE u == IF q.op = "deliver" THEN Stored(t, c, ToSet(Put("notice", 1, "queued"))) ELSE t
<1>1. Committed(q, 1) = 0 /\ PendingGood(q, 1, {}) /\ Len(Script(q)) \in Nat
      BY NothingYet
<1>2. ASSUME NEW r \in u, r.call = c
      PROVE  q.op = "deliver" /\ r = Row(c, PutOf("notice", 1, "queued"))
      BY <1>2, PutIs DEF Stored
<1>3. PutOf("notice", 1, "queued").kind = "notice" /\ \A p : Row(c, p).kind = p.kind
      BY DEF PutOf, Row
<1>4. q.op = "deliver" => "notice" \in Kinds[q.op] /\ PutOf("notice", 1, "queued") \in Early(q)
      BY PutIs DEF Kinds, Early
<1>5. Sourced(c, q, 0, Early(q) \cup Late("yes", q, 1), u)
      BY <1>2, <1>3, <1>4 DEF Sourced
<1>6. Standing(c, q, 0, u)
      BY DEF Standing
<1>7. q.op \in Syncs => Threaded(c, u)
      BY <1>2 DEF Threaded, Syncs
<1>8. MailGood(c, q, 1, sent)
      BY DEF MailGood
<1> HIDE DEF u
<1>9. RowsGood(c, q, 0, Failed("yes", q, 1), Early(q) \cup Late("yes", q, 1), u)
      BY <1>5, <1>6, <1>7 DEF RowsGood
<1>10. 1 \in 1 .. Len(Script(q)) + 1
      BY <1>1
<1> QED BY <1>1, <1>8, <1>9, <1>10 DEF CallGood, u

\* A statement of a transaction that is not its last is held back.
LEMMA HeldKeeps ==
  ASSUME ApiAssumption, NEW c, NEW q, NEW now, NEW pending, NEW t, NEW sent, NEW sent2,
         CallGood(c, "yes", q, now, pending, t, sent), sent \subseteq sent2,
         now \in Together(q), now < Max(Together(q)),
         Script(q)[now].do = "ask" /\ Script(q)[now].kind = "mail" => c \in sent2,
         NEW puts, puts = {x \in {Script(q)[now]} : x.do = "put"}
  PROVE  CallGood(c, "yes", q, now + 1, pending \cup puts, t, sent2)
<1> DEFINE L == Script(q)
           n == Len(L)
           all == pending \cup puts
<1>1. q \in Requests /\ now \in 1 .. n + 1 /\ PendingGood(q, now, pending) /\ MailGood(c, q, now, sent)
      BY DEF CallGood
<1>2. n \in Nat /\ First(q) \in {1, 2} /\ Together(q) = First(q) .. n /\ now < n
      BY <1>1, TogetherIs
<1>3. now + 1 \in Together(q) /\ Committed(q, now + 1) = Committed(q, now)
      BY <1>1, <1>2 DEF Committed
<1>4. puts \subseteq Puts(q, First(q), now) /\ Puts(q, First(q), now) = Puts(q, First(q), now - 1) \cup puts
  <2>1. Puts(q, First(q), now) = {L[i] : i \in {j \in First(q) .. now : L[j].do = "put"}}
        BY DEF Puts
  <2>2. Puts(q, First(q), now - 1) = {L[i] : i \in {j \in First(q) .. now - 1 : L[j].do = "put"}}
        BY DEF Puts
  <2>3. \A j : j \in First(q) .. now <=> j \in First(q) .. now - 1 \/ j = now
        BY <1>1, <1>2
  <2> QED BY <2>1, <2>2, <2>3
<1>5. all \subseteq Puts(q, First(q), now)
      BY <1>1, <1>4 DEF PendingGood
<1>6. q.op \notin Syncs => Puts(q, First(q), now) \subseteq all
      BY <1>1, <1>4 DEF PendingGood
<1>7. ASSUME q.op \in Syncs
      PROVE  /\ \A p \in all : p.kind = "message" => Thread(p.n) \in all
             /\ L[now + 1].do = "put" /\ L[now + 1].kind = "message" => Thread(L[now + 1].n) \in all
  <2>1. \A p \in all : p.kind = "message" => Thread(p.n) \in all
        BY <1>1, <1>7 DEF PendingGood
  <2>2. ASSUME L[now + 1].do = "put", L[now + 1].kind = "message"
        PROVE  Thread(L[now + 1].n) \in all
    <3>1. now + 1 \in 1 .. n /\ (now + 1) - 1 = now
          BY <1>1, <1>2
    <3>2. L[now] = Thread(L[now + 1].n)
          BY <1>1, <1>7, <2>2, <3>1, MailboxOrder
    <3>3. L[now].do = "put"
          BY <3>2 DEF Thread
    <3> QED BY <3>2, <3>3
  <2> QED BY <2>1, <2>2
<1>8. (now + 1) - 1 = now /\ now + 1 \in 1 .. n + 1
      BY <1>1, <1>2
<1>9. PendingGood(q, now + 1, all)
      BY <1>3, <1>5, <1>6, <1>7, <1>8 DEF PendingGood
<1>10. MailGood(c, q, now + 1, sent2)
  <2> SUFFICES ASSUME NEW i \in 1 .. now, L[i].do = "ask", L[i].kind = "mail" PROVE c \in sent2
      BY <1>8 DEF MailGood
  <2>1. i = now \/ i \in 1 .. now - 1
        BY <1>1
  <2> QED BY <1>1, <2>1 DEF MailGood
<1>11. RowsGood(c, q, Committed(q, now), Failed("yes", q, now), Early(q) \cup Late("yes", q, now), t)
      BY DEF CallGood
<1>12. /\ Failed("yes", q, now) = FALSE /\ Late("yes", q, now) = {}
       /\ Failed("yes", q, now + 1) = FALSE /\ Late("yes", q, now + 1) = {}
      BY DEF Failed, Late
<1>13. RowsGood(c, q, Committed(q, now + 1), Failed("yes", q, now + 1), Early(q) \cup Late("yes", q, now + 1),
       t)
      BY <1>3, <1>11, <1>12
<1> QED BY <1>1, <1>8, <1>9, <1>10, <1>13 DEF CallGood

\* Any other is stored, with all that was held back.
LEMMA CommitKeeps ==
  ASSUME ApiAssumption, NEW c, NEW q, NEW now, NEW pending, NEW t, NEW sent, NEW sent2,
         CallGood(c, "yes", q, now, pending, t, sent), sent \subseteq sent2, now <= Len(Script(q)),
         ~ (now \in Together(q) /\ now < Max(Together(q))),
         Script(q)[now].do = "ask" /\ Script(q)[now].kind = "mail" => c \in sent2,
         NEW puts, puts = {x \in {Script(q)[now]} : x.do = "put"}
  PROVE  CallGood(c, "yes", q, now + 1, {}, Stored(t, c, pending \cup puts), sent2)
<1> DEFINE L == Script(q)
           n == Len(L)
           all == pending \cup puts
           k == Committed(q, now)
           u == Stored(t, c, all)
<1>1. q \in Requests /\ now \in 1 .. n /\ PendingGood(q, now, pending) /\ MailGood(c, q, now, sent)
  <2>1. n \in Nat
        BY TogetherIs DEF CallGood
  <2> QED BY <2>1 DEF CallGood
<1>2. n \in Nat /\ First(q) \in {1, 2} /\ (First(q) = 2 <=> q.op = "notify")
      BY <1>1, TogetherIs
<1>3. /\ now \in Together(q) => First(q) <= now /\ now = n /\ ~ (now + 1 \in Together(q))
      /\ q.op \in Syncs => now \in Together(q)
      /\ now + 1 \in Together(q) => now \notin Together(q) /\ First(q) = now + 1
  <2>1. now + 1 \in Together(q) => now + 1 \in First(q) .. n /\ Max(Together(q)) = n
        BY <1>1, TogetherIs
  <2>2. now \in Together(q) => now \in First(q) .. n /\ Max(Together(q)) = n
        BY <1>1, TogetherIs
  <2>3. Together(q) # {} => Together(q) = First(q) .. n
        BY <1>1, TogetherIs
  <2>4. q.op \in Syncs => Together(q) = 1 .. n
        BY <1>1, TogetherIs
  <2>5. now \in Together(q) => First(q) <= now /\ now = n
        BY <1>1, <1>2, <2>2
  <2>6. now + 1 \in Together(q) => now \notin Together(q)
        BY <1>1, <1>2, <2>1, <2>5
  <2>7. now + 1 \in Together(q) => First(q) = now + 1
        BY <1>1, <1>2, <2>1, <2>3, <2>6
  <2> QED BY <1>1, <2>4, <2>5, <2>6, <2>7
<1>4. k \in Nat /\ k <= now /\ Committed(q, now + 1) = now /\ k + 1 <= now
      BY <1>1, <1>2, <1>3 DEF Committed
<1>5. Puts(q, k + 1, now) = Puts(q, k + 1, now - 1) \cup puts
  <2>1. Puts(q, k + 1, now) = {L[i] : i \in {j \in k + 1 .. now : L[j].do = "put"}}
        BY DEF Puts
  <2>2. Puts(q, k + 1, now - 1) = {L[i] : i \in {j \in k + 1 .. now - 1 : L[j].do = "put"}}
        BY DEF Puts
  <2>3. \A j : j \in k + 1 .. now <=> j \in k + 1 .. now - 1 \/ j = now
        BY <1>1, <1>4
  <2> QED BY <2>1, <2>2, <2>3
<1>6. /\ pending \subseteq Puts(q, k + 1, now - 1)
      /\ q.op \notin Syncs => pending = Puts(q, k + 1, now - 1)
  <2>1. CASE now \in Together(q)
    <3>1. k + 1 = First(q)
          BY <1>2, <2>1 DEF Committed
    <3> QED BY <1>1, <2>1, <3>1 DEF PendingGood
  <2>2. CASE now \notin Together(q)
    <3>1. k + 1 = now
          BY <1>1, <2>2 DEF Committed
    <3>2. pending = {} /\ Puts(q, now, now - 1) = {}
          BY <1>1, <2>2 DEF PendingGood, Puts
    <3> QED BY <3>1, <3>2
  <2> QED BY <2>1, <2>2
<1>7. all \subseteq Puts(q, k + 1, now) /\ (q.op \notin Syncs => all = Puts(q, k + 1, now))
      BY <1>5, <1>6
<1>8. \A p \in all : p.kind \in Kinds[q.op]
  <2>1. k + 1 \in Nat /\ k + 1 >= 1 /\ now \in Nat /\ now <= n
        BY <1>1, <1>4
  <2> HIDE DEF k, all
  <2>2. \A p \in Puts(q, k + 1, now) : p.kind \in Kinds[q.op]
        BY <1>1, <2>1, PutsAre
  <2> QED BY <1>7, <2>2
<1>9. RowsGood(c, q, k, FALSE, Early(q), t)
      BY DEF CallGood, Failed, Late
<1>10. /\ Sourced(c, q, now, Early(q), u)
       /\ all = Puts(q, k + 1, now) /\ Standing(c, q, k, t) => Standing(c, q, now, u)
  <2> HIDE DEF k, all
  <2> QED BY <1>1, <1>4, <1>7, <1>8, <1>9, StoringKeeps DEF RowsGood
<1>11. ASSUME q.op \in Syncs
       PROVE  Threaded(c, u)
  <2>1. now \in Together(q) /\ now = n /\ First(q) = 1 /\ k = 0
        BY <1>2, <1>3, <1>11 DEF Committed, Syncs
  <2>2. \A r \in t : r.call # c
    <3>1. Puts(q, 1, 0) = {} /\ Early(q) = {}
          BY <1>11 DEF Puts, Early, Syncs
    <3> QED BY <1>9, <2>1, <3>1 DEF RowsGood, Sourced
  <2>3. L[n].do = "put" /\ L[n].kind = "account"
        BY <1>1, <1>11, MailboxOrder
  <2>4. L[n] \in all
        BY <2>1, <2>3
  <2>5. \A p \in pending : p.kind = "message" => Thread(p.n) \in pending
        BY <1>1, <1>11, <2>1 DEF PendingGood
  <2>6. \A p \in all : p.kind = "message" => Thread(p.n) \in all
        BY <2>1, <2>3, <2>5
  <2>7. \A p : Row(c, p).call = c /\ Row(c, p).kind = p.kind /\ Row(c, p).n = p.n
        BY DEF Row
  <2> SUFFICES ASSUME NEW r \in u, r.call = c, r.kind = "message"
               PROVE  Row(c, Thread(r.n)) \in u /\ \E s \in u : s.call = c /\ s.kind = "account"
      BY DEF Threaded
  <2>8. PICK p \in all : r = Row(c, p)
        BY <2>2 DEF Stored
  <2>9. Thread(r.n) \in all
        BY <2>6, <2>7, <2>8
  <2>10. \A a \in all : Row(c, a) \in u
        BY DEF Stored
  <2> QED BY <2>3, <2>4, <2>7, <2>9, <2>10
<1>12. PendingGood(q, now + 1, {})
  <2>1. CASE now + 1 \in Together(q)
    <3>1. First(q) = now + 1 /\ q.op \notin Syncs /\ (now + 1) - 1 = now
          BY <1>1, <1>3, <2>1
    <3>2. Puts(q, now + 1, now) = {}
          BY <1>1 DEF Puts
    <3> QED BY <2>1, <3>1, <3>2 DEF PendingGood
  <2>2. CASE now + 1 \notin Together(q)
        BY <2>2 DEF PendingGood
  <2> QED BY <2>1, <2>2
<1>13. MailGood(c, q, now + 1, sent2)
  <2>0. (now + 1) - 1 = now
        BY <1>1
  <2> SUFFICES ASSUME NEW i \in 1 .. now, L[i].do = "ask", L[i].kind = "mail" PROVE c \in sent2
      BY <2>0 DEF MailGood
  <2>1. i = now \/ i \in 1 .. now - 1
        BY <1>1
  <2> QED BY <1>1, <2>1 DEF MailGood
<1> HIDE DEF k, u, all
<1>14. RowsGood(c, q, now, FALSE, Early(q), u)
      BY <1>7, <1>9, <1>10, <1>11 DEF RowsGood
<1>15. RowsGood(c, q, Committed(q, now + 1), Failed("yes", q, now + 1), Early(q) \cup Late("yes", q, now + 1),
       u)
  <2>1. Failed("yes", q, now + 1) = FALSE /\ Early(q) \cup Late("yes", q, now + 1) = Early(q)
        BY DEF Failed, Late
  <2> QED BY <1>4, <1>14, <2>1
<1>16. now + 1 \in 1 .. n + 1
      BY <1>1
<1> QED BY <1>1, <1>12, <1>13, <1>15, <1>16 DEF CallGood, u, all

\* A message without a header is passed over.
LEMMA SkipKeeps ==
  ASSUME ApiAssumption, NEW c, NEW q, NEW now, NEW pending, NEW t, NEW sent,
         CallGood(c, "yes", q, now, pending, t, sent), now <= Len(Script(q)),
         Script(q)[now].do = "ask", Script(q)[now].kind = "header"
  PROVE  /\ now \in Together(q) /\ now + 2 < Max(Together(q))
         /\ CallGood(c, "yes", q, now + 3, pending, t, sent)
<1> DEFINE L == Script(q)
           n == Len(L)
<1>1. q \in Requests /\ n \in Nat /\ now \in 1 .. n /\ PendingGood(q, now, pending) /\ MailGood(c, q, now, sent)
  <2>1. n \in Nat
        BY TogetherIs DEF CallGood
  <2> QED BY <2>1 DEF CallGood
<1>2. q.op \in Syncs
  <2>1. "header" \in Services(q.op)
        BY <1>1, StatementIs
  <2> QED BY <2>1 DEF Services, Syncs
<1>3. Together(q) = 1 .. n /\ First(q) = 1
      BY <1>1, <1>2, TogetherIs DEF Syncs, First
<1>4. now \in Together(q) /\ Max(Together(q)) = n
  <2>1. now \in Together(q)
        BY <1>1, <1>3
  <2> QED BY <1>1, <2>1, TogetherIs
<1>5. now + 3 <= n /\ L[now + 1].do = "put" /\ L[now + 2].do = "put" /\ L[now + 2].kind = "message"
      BY <1>1, <1>2, MailboxOrder
<1>6. now + 3 \in Together(q) /\ Committed(q, now + 3) = Committed(q, now) /\ (now + 3) - 1 = now + 2
        /\ (now + 3) \in 1 .. n + 1
  <2>1. now + 3 \in Together(q) /\ (now + 3) - 1 = now + 2 /\ (now + 3) \in 1 .. n + 1
        BY <1>1, <1>3, <1>5
  <2> QED BY <1>4, <2>1 DEF Committed
<1>7. Puts(q, 1, now - 1) \subseteq Puts(q, 1, now + 2)
  <2>1. \A j \in 1 .. now - 1 : j \in 1 .. now + 2
        BY <1>1
  <2> QED BY <2>1 DEF Puts
<1>8. ~ (L[now + 3].do = "put" /\ L[now + 3].kind = "message")
  <2> SUFFICES ASSUME L[now + 3].do = "put", L[now + 3].kind = "message" PROVE FALSE
      OBVIOUS
  <2>1. now + 3 \in 1 .. n /\ (now + 3) - 1 = now + 2
        BY <1>1, <1>5
  <2>2. L[now + 2] = Thread(L[now + 3].n)
        BY <1>1, <1>2, <2>1, MailboxOrder
  <2>3. L[now + 2].kind = "thread"
        BY <2>2 DEF Thread
  <2> QED BY <1>5, <2>3
<1>9. PendingGood(q, now + 3, pending)
  <2>1. pending \subseteq Puts(q, 1, now - 1)
          /\ \A p \in pending : p.kind = "message" => Thread(p.n) \in pending
        BY <1>1, <1>2, <1>3, <1>4 DEF PendingGood
  <2>2. pending \subseteq Puts(q, 1, now + 2)
        BY <1>7, <2>1
  <2> QED BY <1>2, <1>3, <1>6, <1>8, <2>1, <2>2 DEF PendingGood
<1>10. MailGood(c, q, now + 3, sent)
  <2> SUFFICES ASSUME NEW i \in 1 .. now + 2, L[i].do = "ask", L[i].kind = "mail" PROVE c \in sent
      BY <1>6 DEF MailGood
  <2>1. i = now \/ i = now + 1 \/ i = now + 2 \/ i \in 1 .. now - 1
        BY <1>1
  <2> QED BY <1>1, <1>5, <2>1 DEF MailGood
<1>11. RowsGood(c, q, Committed(q, now + 3), Failed("yes", q, now + 3), Early(q) \cup Late("yes", q, now + 3),
       t)
  <2>1. RowsGood(c, q, Committed(q, now), Failed("yes", q, now), Early(q) \cup Late("yes", q, now), t)
        BY DEF CallGood
  <2>2. /\ Failed("yes", q, now) = FALSE /\ Late("yes", q, now) = {}
        /\ Failed("yes", q, now + 3) = FALSE /\ Late("yes", q, now + 3) = {}
        BY DEF Failed, Late
  <2> QED BY <1>6, <2>1, <2>2
<1>12. now + 2 < Max(Together(q))
      BY <1>1, <1>4, <1>5
<1> QED BY <1>1, <1>4, <1>6, <1>9, <1>10, <1>11, <1>12 DEF CallGood

\* What a failure leaves: a failed job, a failed request, or nothing.
LEMMA ToldIs ==
  ASSUME NEW k
  PROVE  /\ ToSet(Told("extractor")) = {PutOf("job", 1, "failed")}
         /\ ToSet(Told("model")) = {PutOf("request", 1, "failed")}
         /\ k \notin {"extractor", "model"} => ToSet(Told(k)) = {}
<1>1. Told("extractor") = Put("job", 1, "failed") /\ Told("model") = Put("request", 1, "failed")
      BY DEF Told
<1>2. k \notin {"extractor", "model"} => Told(k) = << >>
      BY DEF Told
<1>3. ToSet(<< >>) = {}
      BY DEF ToSet
<1> QED BY <1>1, <1>2, <1>3, PutIs

\* The end of a request undoes its transaction; only a failure that is told writes.
LEMMA EndsKeeps ==
  ASSUME ApiAssumption, NEW c, NEW q, NEW now, NEW pending, NEW t, NEW sent, NEW sent2, NEW puts,
         CallGood(c, "yes", q, now, pending, t, sent), sent \subseteq sent2,
         \/ puts = {}
         \/ now <= Len(Script(q)) /\ Script(q)[now].do = "ask" /\ puts = ToSet(Told(Script(q)[now].kind))
  PROVE  CallGood(c, "done", q, now, {}, Stored(t, c, puts), sent2) /\ puts \subseteq Written
<1> DEFINE L == Script(q)
           n == Len(L)
           k == Committed(q, now)
           u == Stored(t, c, puts)
           extra == Early(q) \cup Late("done", q, now)
           kind == L[now].kind
<1>1. q \in Requests /\ n \in Nat /\ now \in 1 .. n + 1 /\ MailGood(c, q, now, sent)
  <2>1. n \in Nat
        BY TogetherIs DEF CallGood
  <2> QED BY <2>1 DEF CallGood
<1>2. RowsGood(c, q, k, FALSE, Early(q), t)
      BY DEF CallGood, Failed, Late
<1>3. MailGood(c, q, now, sent2)
      BY <1>1 DEF MailGood
<1>4. CASE puts = {}
  <2>1. u = t
    <3>1. \A r \in t : \A p \in puts : <<r.kind, r.n>> # <<p.kind, p.n>>
          BY <1>4
    <3>2. {Row(c, p) : p \in puts} = {}
          BY <1>4
    <3> QED BY <3>1, <3>2 DEF Stored
  <2>2. RowsGood(c, q, k, Failed("done", q, now), extra, t)
        BY <1>2 DEF RowsGood, Sourced
  <2> HIDE DEF k, u, extra
  <2>3. RowsGood(c, q, Committed(q, now), Failed("done", q, now), Early(q) \cup Late("done", q, now), u)
        BY <2>1, <2>2 DEF k, extra
  <2> QED BY <1>1, <1>3, <1>4, <2>3 DEF CallGood, u
<1>5. CASE puts # {}
  <2>1. now \in 1 .. n /\ L[now].do = "ask" /\ puts = ToSet(Told(kind)) /\ kind \in {"extractor", "model"}
        BY <1>1, <1>5, ToldIs
  <2>2. kind \in Services(q.op)
        BY <1>1, <2>1, StatementIs
  <2>3. (kind = "extractor" => q.op = "upload") /\ (kind = "model" => q.op = "generate")
        BY <2>2 DEF Services
  <2>4. \/ puts = {PutOf("job", 1, "failed")} /\ q.op = "upload"
        \/ puts = {PutOf("request", 1, "failed")} /\ q.op = "generate"
    <3> HIDE DEF kind
    <3>1. CASE kind = "extractor"
      <4>1. puts = ToSet(Told("extractor"))
            BY <2>1, <3>1
      <4> QED BY <2>3, <3>1, <4>1, ToldIs
    <3>2. CASE kind = "model"
      <4>1. puts = ToSet(Told("model"))
            BY <2>1, <3>2
      <4> QED BY <2>3, <3>2, <4>1, ToldIs
    <3> QED BY <2>1, <3>1, <3>2
  <2>5. q.op \notin Syncs /\ \A p \in puts : p.kind \in Kinds[q.op] /\ p \in Written
    <3>1. "job" \in Kinds["upload"] /\ "request" \in Kinds["generate"]
          BY DEF Kinds
    <3>2. "job" \in AllKinds /\ "request" \in AllKinds
          BY <3>1 DEF AllKinds, Operations
    <3>3. PutOf("job", 1, "failed") \in Written /\ PutOf("request", 1, "failed") \in Written
          BY <3>2 DEF PutOf, Written, Statuses
    <3>4. PutOf("job", 1, "failed").kind = "job" /\ PutOf("request", 1, "failed").kind = "request"
          BY DEF PutOf
    <3> QED BY <2>4, <3>1, <3>3, <3>4 DEF Syncs
  <2>6. Failed("done", q, now) /\ Late("done", q, now) = puts
    <3>1. DOMAIN L = 1 .. n
          BY <1>1, TogetherIs
    <3> QED BY <2>1, <3>1 DEF Failed, Late
  <2>7. \A p : Row(c, p).kind = p.kind
        BY DEF Row
  <2>8. Sourced(c, q, k, extra, u)
    <3> SUFFICES ASSUME NEW r \in u, r.call = c
                 PROVE  /\ r.kind \in Kinds[q.op]
                        /\ \E p \in Puts(q, 1, k) \cup extra : r = Row(c, p)
        BY DEF Sourced
    <3>1. r \in t \/ \E p \in puts : r = Row(c, p)
          BY DEF Stored
    <3>2. CASE r \in t
          BY <1>2, <3>2 DEF RowsGood, Sourced
    <3>3. CASE \E p \in puts : r = Row(c, p)
          BY <2>5, <2>6, <2>7, <3>3
    <3> QED BY <3>1, <3>2, <3>3
  <2> HIDE DEF k, u, extra
  <2>9. RowsGood(c, q, Committed(q, now), Failed("done", q, now), Early(q) \cup Late("done", q, now), u)
        BY <2>5, <2>6, <2>8 DEF RowsGood, k, extra
  <2> QED BY <1>1, <1>3, <2>5, <2>9 DEF CallGood, u
<1> QED BY <1>4, <1>5

\* A task that is retried has stored nothing yet but what it begins with.
LEMMA AgainKeeps ==
  ASSUME ApiAssumption, NEW c, NEW q, NEW now, NEW pending, NEW t, NEW sent,
         CallGood(c, "yes", q, now, pending, t, sent), now <= Len(Script(q)), q.op \in {"deliver", "sync_task"}
  PROVE  CallGood(c, "yes", q, 1, {}, t, sent)
<1> DEFINE n == Len(Script(q))
<1>1. q \in Requests /\ n \in Nat /\ now \in 1 .. n
  <2>1. n \in Nat
        BY TogetherIs DEF CallGood
  <2> QED BY <2>1 DEF CallGood
<1>2. Committed(q, now) = 0
  <2>1. Together(q) = 1 .. n /\ First(q) = 1
        BY <1>1, TogetherIs DEF Syncs, First
  <2> QED BY <1>1, <2>1 DEF Committed
<1>3. Committed(q, 1) = 0 /\ PendingGood(q, 1, {})
      BY <1>1, NothingYet
<1>4. RowsGood(c, q, Committed(q, 1), Failed("yes", q, 1), Early(q) \cup Late("yes", q, 1), t)
  <2>1. RowsGood(c, q, Committed(q, now), Failed("yes", q, now), Early(q) \cup Late("yes", q, now), t)
        BY DEF CallGood
  <2>2. /\ Failed("yes", q, now) = FALSE /\ Late("yes", q, now) = {}
        /\ Failed("yes", q, 1) = FALSE /\ Late("yes", q, 1) = {}
        BY DEF Failed, Late
  <2> QED BY <1>2, <1>3, <2>1, <2>2
<1>5. MailGood(c, q, 1, sent)
      BY DEF MailGood
<1>6. 1 \in 1 .. n + 1
      BY <1>1
<1> QED BY <1>1, <1>3, <1>4, <1>5, <1>6 DEF CallGood

-----------------------------------------------------------------------------
(* The steps. *)

\* A call that does not take the step sees only more mails and other calls' rows.
LEMMA Others ==
  ASSUME ApiAssumption, ApiInv, NEW c \in Calls,
         \A d \in Calls \ {c} : /\ served'[d] = served[d] /\ what'[d] = what[d]
                                /\ line'[d] = line[d] /\ open'[d] = open[d] /\ Agree(d, rows, rows'),
         mails \subseteq mails', CallInv(c)'
  PROVE  \A d \in Calls : CallInv(d)'
<1> SUFFICES ASSUME NEW d \in Calls, d # c PROVE CallInv(d)'
    OBVIOUS
<1>1. CallGood(d, served[d], what[d], line[d], open[d], rows, mails)
      BY DEF ApiInv, CallInv
<1>2. CallGood(d, served[d], what[d], line[d], open[d], rows', mails')
      BY <1>1, AgreeCall
<1>3. CallGood(d, served'[d], what'[d], line'[d], open'[d], rows', mails')
      BY <1>2
<1> QED BY <1>3 DEF CallInv

\* What is stored has the type of rows.
LEMMA StoredTyped ==
  ASSUME NEW c \in Calls, NEW t, t \subseteq Rows, NEW puts, puts \subseteq Written
  PROVE  Stored(t, c, puts) \subseteq Rows
<1>1. \A p \in Written : Row(c, p) \in Rows
      BY DEF Written, Rows, Row
<1> QED BY <1>1 DEF Stored

\* Where a call stands.
LEMMA Where ==
  ASSUME ApiAssumption, ApiInv, NEW c \in Calls, served[c] = "yes"
  PROVE  /\ CallGood(c, "yes", what[c], line[c], open[c], rows, mails)
         /\ what[c] \in Requests /\ Len(Script(what[c])) \in Nat
              /\ DOMAIN Script(what[c]) = 1 .. Len(Script(what[c]))
         /\ line[c] \in 1 .. Len(Script(what[c])) + 1 /\ open[c] \subseteq Written
<1>1. CallGood(c, "yes", what[c], line[c], open[c], rows, mails)
      BY DEF ApiInv, CallInv
<1>2. what[c] \in Requests /\ line[c] \in 1 .. Len(Script(what[c])) + 1
      BY <1>1 DEF CallGood
<1>3. Script(what[c]) \in Seq(Statements(Kinds[what[c].op], Services(what[c].op)))
      BY <1>2, TogetherIs
<1>4. open[c] \subseteq Written
      BY DEF ApiInv, ApiTypes
<1> QED BY <1>1, <1>2, <1>3, <1>4

\* A table agrees with itself.
LEMMA AgreeItself ==
  ASSUME NEW d, NEW t
  PROVE  Agree(d, t, t)
BY DEF Agree

\* Past one statement.
LEMMA PastKeeps ==
  ASSUME ApiAssumption, ApiInv, NEW c \in Calls, served[c] = "yes", line[c] <= Len(Script(what[c])),
         NEW puts, puts = {x \in {Now(c)} : x.do = "put"}, Past(c, 1, puts),
         mails \subseteq mails', Now(c).do = "ask" /\ Now(c).kind = "mail" => c \in mails'
  PROVE  ApiInv'
<1> DEFINE q == what[c]
           now == line[c]
           all == open[c] \cup puts
           waits == now \in Together(q) /\ now < Max(Together(q))
<1>1. CallGood(c, "yes", q, now, open[c], rows, mails) /\ q \in Requests /\ now \in 1 .. Len(Script(q))
        /\ open[c] \subseteq Written
  <2>1. now \in 1 .. Len(Script(q)) + 1 /\ Len(Script(q)) \in Nat
        BY Where
  <2>2. now \in 1 .. Len(Script(q))
        BY <2>1
  <2> QED BY <2>2, Where
<1>2. now \in Nat /\ now + 1 - 1 = now
      BY <1>1
<1>3. /\ line' = [line EXCEPT ![c] = now + 1] /\ open' = [open EXCEPT ![c] = IF waits THEN all ELSE {}]
      /\ rows' = (IF waits THEN rows ELSE Stored(rows, c, all)) /\ served' = served /\ what' = what /\ tries' = tries
      BY <1>2 DEF Past
<1>4. ApiTypes
      BY DEF ApiInv
<1>5. line'[c] = now + 1 /\ open'[c] = (IF waits THEN all ELSE {}) /\ served'[c] = "yes" /\ what'[c] = q
      BY <1>3, <1>4 DEF ApiTypes
<1>6. puts \subseteq Written
  <2>1. Script(q)[now].do = "put" => Script(q)[now] \in Written
        BY <1>1, StatementIs
  <2> QED BY <2>1 DEF Now
<1>7. ApiTypes'
  <2>1. line' \in [Calls -> Nat]
        BY <1>2, <1>3, <1>4 DEF ApiTypes
  <2>2. open' \in [Calls -> SUBSET Written]
        BY <1>1, <1>3, <1>4, <1>6 DEF ApiTypes
  <2>3. rows' \subseteq Rows
        BY <1>1, <1>3, <1>4, <1>6, StoredTyped DEF ApiTypes
  <2> QED BY <1>3, <1>4, <2>1, <2>2, <2>3 DEF ApiTypes
<1>9. puts = {x \in {Script(q)[now]} : x.do = "put"} /\ (Script(q)[now].do = "ask"
        /\ Script(q)[now].kind = "mail" => c \in mails')
      BY DEF Now
<1>10. CallInv(c)'
  <2>1. CASE waits
    <3>1. CallGood(c, "yes", q, now + 1, all, rows, mails')
          BY <1>1, <1>9, <2>1, HeldKeeps
    <3>2. rows' = rows /\ open'[c] = all
          BY <1>3, <1>5, <2>1
    <3> QED BY <1>5, <3>1, <3>2 DEF CallInv
  <2>2. CASE ~ waits
    <3>1. now <= Len(Script(q)) /\ ~ (now \in Together(q) /\ now < Max(Together(q)))
          BY <2>2
    <3>2. CallGood(c, "yes", q, now + 1, {}, Stored(rows, c, all), mails')
          BY <1>1, <1>9, <3>1, CommitKeeps
    <3>3. rows' = Stored(rows, c, all) /\ open'[c] = {}
          BY <1>3, <1>5, <2>2
    <3> QED BY <1>5, <3>2, <3>3 DEF CallInv
  <2> QED BY <2>1, <2>2
<1>11. \A d \in Calls \ {c} : Agree(d, rows, rows')
  <2> SUFFICES ASSUME NEW d \in Calls, d # c PROVE Agree(d, rows, rows')
      OBVIOUS
  <2> QED BY <1>3, StoredElsewhere, AgreeItself
<1>12. \A d \in Calls \ {c} : served'[d] = served[d] /\ what'[d] = what[d] /\ line'[d] = line[d]
         /\ open'[d] = open[d]
      BY <1>3, <1>4 DEF ApiTypes
<1>13. \A d \in Calls : CallInv(d)'
      BY <1>10, <1>11, <1>12, Others
<1> QED BY <1>7, <1>13 DEF ApiInv

\* A call ends.
LEMMA EndKeeps ==
  ASSUME ApiAssumption, ApiInv, NEW c \in Calls, served[c] = "yes", NEW puts, Ends(c, puts),
         mails \subseteq mails',
         \/ puts = {}
         \/ line[c] <= Len(Script(what[c])) /\ Now(c).do = "ask" /\ puts = ToSet(Told(Now(c).kind))
  PROVE  ApiInv'
<1>1. CallGood(c, "yes", what[c], line[c], open[c], rows, mails)
      BY Where
<1>2. CallGood(c, "done", what[c], line[c], {}, Stored(rows, c, puts), mails') /\ puts \subseteq Written
      BY <1>1, EndsKeeps DEF Now
<1>3. ApiTypes
      BY DEF ApiInv
<1>4. /\ served'[c] = "done" /\ open'[c] = {} /\ rows' = Stored(rows, c, puts) /\ what'[c] = what[c]
           /\ line'[c] = line[c]
      /\ what' = what /\ line' = line /\ tries' = tries
      BY <1>3 DEF Ends, ApiTypes
<1>5. CallInv(c)'
      BY <1>2, <1>4 DEF CallInv
<1>6. ApiTypes'
  <2>1. rows' \subseteq Rows
        BY <1>2, <1>3, <1>4, StoredTyped DEF ApiTypes
  <2>2. served' \in [Calls -> {"no", "yes", "done"}] /\ open' \in [Calls -> SUBSET Written]
        BY <1>3 DEF Ends, ApiTypes
  <2> QED BY <1>3, <1>4, <2>1, <2>2 DEF ApiTypes
<1>7. \A d \in Calls \ {c} : Agree(d, rows, rows')
      BY <1>4, StoredElsewhere
<1>8. \A d \in Calls \ {c} : served'[d] = served[d] /\ what'[d] = what[d] /\ line'[d] = line[d]
        /\ open'[d] = open[d]
      BY <1>3 DEF Ends, ApiTypes
<1>9. \A d \in Calls : CallInv(d)'
      BY <1>5, <1>7, <1>8, Others
<1> QED BY <1>6, <1>9 DEF ApiInv

\* A task is retried, or ends when it has no retries left.
LEMMA RetryKeeps ==
  ASSUME ApiAssumption, ApiInv, NEW c \in Calls, served[c] = "yes", line[c] <= Len(Script(what[c])), Again(c),
         mails' = mails
  PROVE  ApiInv'
<1>1. CASE tries[c] < Retries(what[c])
  <2>1. ApiTypes
        BY DEF ApiInv
  <2>2. CallGood(c, "yes", what[c], line[c], open[c], rows, mails)
        BY Where
  <2>3. what[c].op \in {"deliver", "sync_task"}
        BY <1>1, <2>1 DEF Retries, ApiTypes
  <2>4. CallGood(c, "yes", what[c], 1, {}, rows, mails)
        BY <2>2, <2>3, AgainKeeps
  <2>5. /\ tries' = [tries EXCEPT ![c] = @ + 1] /\ line' = [line EXCEPT ![c] = 1]
             /\ open' = [open EXCEPT ![c] = {}]
        /\ served' = served /\ what' = what /\ rows' = rows
        BY <1>1 DEF Again
  <2>6. line'[c] = 1 /\ open'[c] = {}
        BY <2>1, <2>5 DEF ApiTypes
  <2>7. CallInv(c)'
        BY <2>4, <2>5, <2>6 DEF CallInv
  <2>8. ApiTypes'
        BY <2>1, <2>5 DEF ApiTypes
  <2>9. \A d \in Calls \ {c} : /\ served'[d] = served[d] /\ what'[d] = what[d] /\ line'[d] = line[d]
                               /\ open'[d] = open[d] /\ Agree(d, rows, rows')
        BY <2>1, <2>5, AgreeItself DEF ApiTypes
  <2>10. \A d \in Calls : CallInv(d)'
        BY <2>7, <2>9, Others
  <2> QED BY <2>8, <2>10 DEF ApiInv
<1>2. CASE ~ (tries[c] < Retries(what[c]))
  <2>1. Ends(c, {})
        BY <1>2 DEF Again
  <2> QED BY <2>1, EndKeeps
<1> QED BY <1>1, <1>2

\* A call begins.
LEMMA BeginKeeps ==
  ASSUME ApiAssumption, ApiInv, NEW c \in Calls, NEW q \in Requests, Begin(c, q)
  PROVE  ApiInv'
<1>1. ApiTypes /\ CallGood(c, served[c], what[c], line[c], open[c], rows, mails)
      BY DEF ApiInv, CallInv
<1>2. line[c] = 1 /\ open[c] = {} /\ \A r \in rows : r.call # c
      BY <1>1 DEF Begin, CallGood
<1>3. CallGood(c, "yes", q, 1, {}, rows', mails')
      BY <1>2, Begins DEF Begin
<1>4. /\ served'[c] = "yes" /\ what'[c] = q /\ line'[c] = 1 /\ open'[c] = {}
      BY <1>1, <1>2 DEF Begin, ApiTypes
<1>5. CallInv(c)'
      BY <1>3, <1>4 DEF CallInv
<1>6. \A d \in Calls \ {c} : Agree(d, rows, rows')
  <2> SUFFICES ASSUME NEW d \in Calls, d # c PROVE Agree(d, rows, rows')
      OBVIOUS
  <2>1. Agree(d, rows, rows) /\ Agree(d, rows, Stored(rows, c, ToSet(Put("notice", 1, "queued"))))
        BY AgreeItself, StoredElsewhere
  <2> QED BY <2>1 DEF Begin
<1>7. rows' \subseteq Rows
  <2>1. "notice" \in AllKinds
        BY DEF AllKinds, Kinds, Operations
  <2>2. PutOf("notice", 1, "queued") \in Written
        BY <2>1 DEF PutOf, Written, Statuses
  <2>3. Stored(rows, c, ToSet(Put("notice", 1, "queued"))) \subseteq Rows
        BY <1>1, <2>2, PutIs, StoredTyped DEF ApiTypes
  <2> QED BY <1>1, <2>3 DEF Begin, ApiTypes
<1>8. ApiTypes'
      BY <1>1, <1>7 DEF Begin, ApiTypes
<1>9. \A d \in Calls \ {c} : served'[d] = served[d] /\ what'[d] = what[d] /\ line'[d] = line[d]
        /\ open'[d] = open[d]
      BY <1>1 DEF Begin, ApiTypes
<1>10. mails \subseteq mails'
      BY DEF Begin
<1>11. \A d \in Calls : CallInv(d)'
      BY <1>5, <1>6, <1>9, <1>10, Others
<1> QED BY <1>8, <1>11 DEF ApiInv

\* A call at a statement of the given form.
LEMMA AtIs ==
  ASSUME ApiAssumption, ApiInv, NEW c \in Calls, NEW do, At(c, do)
  PROVE  /\ served[c] = "yes" /\ line[c] <= Len(Script(what[c])) /\ Now(c).do = do
         /\ {x \in {Now(c)} : x.do = "put"} = IF do = "put" THEN {Now(c)} ELSE {}
<1>1. served[c] = "yes" /\ line[c] \in DOMAIN Script(what[c]) /\ Now(c).do = do
      BY DEF At
<1>2. line[c] <= Len(Script(what[c]))
      BY <1>1, Where
<1> QED BY <1>1, <1>2

\* Reading a mailbox: the next statement, a retry, or a message passed over.
LEMMA MailboxKeeps ==
  ASSUME ApiAssumption, ApiInv, NEW c \in Calls, Mailbox(c)
  PROVE  ApiInv'
<1>1. /\ served[c] = "yes" /\ line[c] <= Len(Script(what[c])) /\ Now(c).do = "ask"
           /\ Now(c).kind \in {"mailbox", "header"}
      /\ {x \in {Now(c)} : x.do = "put"} = {}
      BY AtIs DEF Mailbox
<1>2. mails' = mails
      BY DEF Mailbox
<1>3. CASE Past(c, 1, {})
      BY <1>1, <1>2, <1>3, PastKeeps
<1>4. CASE Again(c)
      BY <1>1, <1>2, <1>4, RetryKeeps
<1>5. CASE Now(c).kind = "header" /\ Past(c, 3, {})
  <2>1. ApiTypes /\ CallGood(c, "yes", what[c], line[c], open[c], rows, mails) /\ line[c] \in Nat
    <3>1. line[c] \in 1 .. Len(Script(what[c])) + 1
          BY <1>1, Where
    <3> QED BY <1>1, <3>1, Where DEF ApiInv
  <2>2. /\ line[c] \in Together(what[c]) /\ line[c] + 2 < Max(Together(what[c]))
        /\ CallGood(c, "yes", what[c], line[c] + 3, open[c], rows, mails)
        BY <1>1, <1>5, <2>1, SkipKeeps DEF Now
  <2>3. line[c] + 3 - 1 = line[c] + 2 /\ line[c] + 2 + 1 = line[c] + 3
        BY <2>1
  <2>4. /\ line' = [line EXCEPT ![c] = line[c] + 3] /\ open' = [open EXCEPT ![c] = open[c] \cup {}]
        /\ rows' = rows /\ served' = served /\ what' = what /\ tries' = tries
    <3> DEFINE last == line[c] + 3 - 1
    <3>1. last = line[c] + 2 /\ last + 1 = line[c] + 3
          BY <2>1
    <3>2. line[c] \in Together(what[c]) /\ last < Max(Together(what[c]))
          BY <2>2, <3>1
    <3>3. /\ line' = [line EXCEPT ![c] = last + 1] /\ open' = [open EXCEPT ![c] = open[c] \cup {}]
          /\ rows' = rows /\ served' = served /\ what' = what /\ tries' = tries
          BY <1>5, <3>2 DEF Past
    <3> QED BY <3>1, <3>3
  <2>5. line'[c] = line[c] + 3 /\ open'[c] = open[c]
        BY <2>1, <2>4 DEF ApiTypes
  <2>6. CallInv(c)'
        BY <1>1, <1>2, <2>2, <2>4, <2>5 DEF CallInv
  <2>7. ApiTypes'
        BY <2>1, <2>4 DEF ApiTypes
  <2>8. \A d \in Calls \ {c} : /\ served'[d] = served[d] /\ what'[d] = what[d] /\ line'[d] = line[d]
                               /\ open'[d] = open[d] /\ Agree(d, rows, rows')
        BY <2>1, <2>4, AgreeItself DEF ApiTypes
  <2>9. \A d \in Calls : CallInv(d)'
        BY <1>2, <2>6, <2>8, Others
  <2> QED BY <2>7, <2>9 DEF ApiInv
<1> QED BY <1>3, <1>4, <1>5 DEF Mailbox

\* Every step keeps the invariant.
LEMMA ApiNextKeeps ==
  ASSUME ApiAssumption, ApiInv, ApiNext
  PROVE  ApiInv'
<1> SUFFICES ASSUME NEW c \in Calls,
                    \/ \E q \in Requests : Begin(c, q)
                    \/ Write(c) \/ Mail(c) \/ Mailbox(c) \/ Service(c) \/ Check(c) \/ Finish(c)
                         \/ Dies(c)
             PROVE  ApiInv'
    BY DEF ApiNext
<1>1. CASE \E q \in Requests : Begin(c, q)
      BY <1>1, BeginKeeps
<1>2. CASE Write(c)
  <2>1. /\ served[c] = "yes" /\ line[c] <= Len(Script(what[c])) /\ Now(c).do = "put"
        /\ {x \in {Now(c)} : x.do = "put"} = {Now(c)}
        BY <1>2, AtIs DEF Write
  <2>2. Past(c, 1, {Now(c)}) /\ mails' = mails
        BY <1>2 DEF Write
  <2> QED BY <2>1, <2>2, PastKeeps
<1>4. CASE Mail(c)
  <2>1. /\ served[c] = "yes" /\ line[c] <= Len(Script(what[c])) /\ Now(c).do = "ask"
        /\ {x \in {Now(c)} : x.do = "put"} = {}
        BY <1>4, AtIs DEF Mail
  <2>2. CASE Past(c, 1, {}) /\ mails' = mails \cup {c}
    <3>1. mails \subseteq mails' /\ c \in mails'
          BY <2>2
    <3> QED BY <2>1, <2>2, <3>1, PastKeeps
  <2>3. CASE Again(c) /\ mails' = mails
        BY <2>1, <2>3, RetryKeeps
  <2>4. CASE Ends(c, {}) /\ mails' \in {mails, mails \cup {c}}
    <3>1. mails \subseteq mails'
          BY <2>4
    <3> QED BY <2>1, <2>4, <3>1, EndKeeps
  <2> QED BY <1>4, <2>2, <2>3, <2>4 DEF Mail
<1>5. CASE Mailbox(c)
      BY <1>5, MailboxKeeps
<1>6. CASE Service(c)
  <2>1. /\ served[c] = "yes" /\ line[c] <= Len(Script(what[c])) /\ Now(c).do = "ask" /\ Now(c).kind # "mail"
        /\ {x \in {Now(c)} : x.do = "put"} = {}
        BY <1>6, AtIs DEF Service
  <2>2. mails' = mails /\ (Past(c, 1, {}) \/ Ends(c, ToSet(Told(Now(c).kind))))
        BY <1>6 DEF Service
  <2>3. CASE Past(c, 1, {})
        BY <2>1, <2>2, <2>3, PastKeeps
  <2>4. CASE Ends(c, ToSet(Told(Now(c).kind)))
        BY <2>1, <2>2, <2>4, EndKeeps
  <2> QED BY <2>2, <2>3, <2>4
<1>7. CASE Check(c)
  <2>1. /\ served[c] = "yes" /\ line[c] <= Len(Script(what[c])) /\ Now(c).do = "test"
        /\ {x \in {Now(c)} : x.do = "put"} = {}
        BY <1>7, AtIs DEF Check
  <2>2. mails' = mails /\ (Past(c, 1, {}) \/ Ends(c, {}))
        BY <1>7 DEF Check
  <2>3. CASE Past(c, 1, {})
        BY <2>1, <2>2, <2>3, PastKeeps
  <2>4. CASE Ends(c, {})
        BY <2>1, <2>2, <2>4, EndKeeps
  <2> QED BY <2>2, <2>3, <2>4
<1>8. CASE Finish(c)
      BY <1>8, EndKeeps DEF Finish
<1>9. CASE Dies(c)
      BY <1>9, EndKeeps DEF Dies
<1> QED BY <1>1, <1>2, <1>4, <1>5, <1>6, <1>7, <1>8, <1>9

\* The operations of the API never leave the invariant: every row of a call is what a committed
\* statement wrote, what was written stands until it is replaced, and a transaction that is open
\* holds what its statements have written (dispatch_operation and its handlers, with crashes and
\* retries after any statement).
THEOREM ApiHolds == ApiSpec => []ApiInv
<1>1. ApiInit => ApiInv
  <2> SUFFICES ASSUME ApiInit PROVE ApiInv
      OBVIOUS
  <2>1. ApiTypes
        BY DEF ApiInit, ApiTypes
  <2>2. \A c \in Calls : CallInv(c)
        BY DEF ApiInit, CallInv, CallGood
  <2> QED BY <2>1, <2>2 DEF ApiInv
<1>2. ApiInv /\ [ApiNext]_apivars => ApiInv'
  <2> SUFFICES ASSUME ApiInv, [ApiNext]_apivars PROVE ApiInv'
      OBVIOUS
  <2>1. CASE ApiNext
        BY <2>1, ApiAssumption, ApiNextKeeps
  <2>2. CASE UNCHANGED apivars
        BY <2>2 DEF apivars, ApiInv, ApiTypes, CallInv
  <2> QED BY <2>1, <2>2
<1> QED BY <1>1, <1>2, PTL DEF ApiSpec

-----------------------------------------------------------------------------
(* What a script has written when one of its rows is there. *)

AskOf(kind) == [do |-> "ask", kind |-> kind, n |-> 0, status |-> ""]

\* A sequence over a set is one over a larger set.
LEMMA LargerSet ==
  ASSUME NEW L, NEW T, L \subseteq T, NEW F \in Seq(L)
  PROVE  F \in Seq(T)
OBVIOUS

\* A loop of rows among the statements of a script.
LEMMA LoopIn ==
  ASSUME NEW n \in Nat, NEW K, NEW V, NEW k \in K, NEW s \in Statuses
  PROVE  /\ PutLoop(n, k, s) \in Seq(Statements(K, V)) /\ Len(PutLoop(n, k, s)) = n
         /\ \A i \in 1 .. n : PutLoop(n, k, s)[i] = PutOf(k, i, s)
<1>1. [do : {"put"}, kind : {k}, n : Nat, status : {s}] \subseteq Statements(K, V)
      BY DEF Statements
<1>2. PutLoop(n, k, s) \in Seq([do : {"put"}, kind : {k}, n : Nat, status : {s}])
      BY PutLoopIs
<1>3. PutLoop(n, k, s) \in Seq(Statements(K, V))
      BY <1>1, <1>2, LargerSet
<1> QED BY <1>3, PutLoopIs

InOrder(P, a, b, d) ==
  /\ Len(P) = Len(a) + Len(b) + Len(d)
  /\ \A i \in 1 .. Len(a) : P[i] = a[i]
  /\ \A i \in 1 .. Len(b) : P[Len(a) + i] = b[i]
  /\ \A i \in 1 .. Len(d) : P[Len(a) + Len(b) + i] = d[i]

\* Where the parts of a script of three parts lie.
LEMMA Around ==
  ASSUME NEW T, NEW a \in Seq(T), NEW b \in Seq(T), NEW d \in Seq(T)
  PROVE  InOrder(a \o b \o d, a, b, d)
BY DEF InOrder

\* The result of item i is statement i + 2 of a search.
LEMMA SearchOrder ==
  ASSUME ApiAssumption, NEW q \in Requests, q.op = "search"
  PROVE  /\ Len(Script(q)) = q.items + 3
         /\ Script(q)[1] = PutOf("query", 1, "running") /\ Script(q)[2].do = "ask"
         /\ \A i \in 1 .. q.items : Script(q)[2 + i] = PutOf("result", i, "retrieved")
         /\ Script(q)[q.items + 3] = PutOf("query", 1, "completed")
<1> DEFINE n == q.items
           T == Statements({"query", "result"}, {"search"})
           x == PutOf("query", 1, "running")
           y == [do |-> "ask", kind |-> "search", n |-> 0, status |-> ""]
           z == PutOf("query", 1, "completed")
           F == PutLoop(n, "result", "retrieved")
           a == <<x>> \o <<y>>
           d == <<z>>
<1>1. n \in Nat
      BY DEF ApiAssumption
<1>2. Script(q) = a \o F \o d
      BY DEF Script, SearchWeb, PutLoop, Ask, Put, PutOf
<1>3. x \in T /\ y \in T /\ z \in T /\ y.do = "ask"
      BY DEF PutOf, Statements, Statuses
<1>4. F \in Seq(T) /\ Len(F) = n /\ \A i \in 1 .. n : F[i] = PutOf("result", i, "retrieved")
  <2>1. "retrieved" \in Statuses /\ "result" \in {"query", "result"}
        BY DEF Statuses
  <2> QED BY <1>1, <2>1, LoopIn
<1> HIDE DEF T, F, x, y, z, n
<1>5. a \in Seq(T) /\ d \in Seq(T)
      BY <1>3
<1>6. Len(a) = 2 /\ a[1] = x /\ a[2] = y /\ Len(d) = 1 /\ d[1] = z
      BY <1>3
<1> HIDE DEF a, d
<1>7. InOrder(Script(q), a, F, d)
      BY <1>2, <1>4, <1>5, Around
<1>8. /\ Len(Script(q)) = n + 3 /\ Script(q)[1] = x /\ Script(q)[2] = y
      /\ \A i \in 1 .. n : Script(q)[2 + i] = F[i]
      /\ Script(q)[2 + n + 1] = z
  <2>1. 1 \in 1 .. 2 /\ 2 \in 1 .. 2 /\ 1 \in 1 .. 1 /\ 2 + n + 1 = n + 3
        BY <1>1
  <2> QED BY <1>1, <1>4, <1>6, <1>7, <2>1 DEF InOrder
<1>9. 2 + n + 1 = n + 3
      BY <1>1
<1> QED BY <1>3, <1>4, <1>8, <1>9 DEF n, x, z

\* A plan, its steps, its risks.
LEMMA PlanOrder ==
  ASSUME ApiAssumption, NEW q \in Requests, q.op = "plan"
  PROVE  /\ Len(Script(q)) = 2 * q.items + 1
         /\ Script(q)[1] = PutOf("plan", 1, "ready")
         /\ \A i \in 1 .. q.items : Script(q)[1 + i] = PutOf("step", i, "pending")
         /\ \A i \in 1 .. q.items : Script(q)[1 + q.items + i] = PutOf("risk", i, "open")
<1> DEFINE n == q.items
           T == Statements({"plan", "step", "risk"}, {})
           x == PutOf("plan", 1, "ready")
           a == <<x>>
           F == PutLoop(n, "step", "pending")
           G == PutLoop(n, "risk", "open")
<1>1. n \in Nat
      BY DEF ApiAssumption
<1>2. Script(q) = a \o F \o G
      BY DEF Script, BuildPlan, PutLoop, Put, PutOf
<1>3. x \in T
      BY DEF PutOf, Statements, Statuses
<1>4. /\ F \in Seq(T) /\ Len(F) = n /\ \A i \in 1 .. n : F[i] = PutOf("step", i, "pending")
      /\ G \in Seq(T) /\ Len(G) = n /\ \A i \in 1 .. n : G[i] = PutOf("risk", i, "open")
  <2>1. "pending" \in Statuses /\ "open" \in Statuses /\ "step" \in {"plan", "step", "risk"}
          /\ "risk" \in {"plan", "step", "risk"}
        BY DEF Statuses
  <2>2. F \in Seq(T) /\ Len(F) = n /\ \A i \in 1 .. n : F[i] = PutOf("step", i, "pending")
        BY <1>1, <2>1, LoopIn
  <2>3. G \in Seq(T) /\ Len(G) = n /\ \A i \in 1 .. n : G[i] = PutOf("risk", i, "open")
        BY <1>1, <2>1, LoopIn
  <2> QED BY <2>2, <2>3
<1> HIDE DEF T, F, G, x, n
<1>5. a \in Seq(T)
      BY <1>3
<1>6. Len(a) = 1 /\ a[1] = x
      BY <1>3
<1> HIDE DEF a
<1>7. InOrder(Script(q), a, F, G)
      BY <1>2, <1>4, <1>5, Around
<1>8. /\ Len(Script(q)) = 1 + n + n /\ Script(q)[1] = x
      /\ \A i \in 1 .. n : Script(q)[1 + i] = F[i]
      /\ \A i \in 1 .. n : Script(q)[1 + n + i] = G[i]
  <2>1. 1 \in 1 .. 1
        OBVIOUS
  <2> QED BY <1>1, <1>4, <1>6, <1>7, <2>1 DEF InOrder
<1>9. 1 + n + n = 2 * n + 1
      BY <1>1
<1> QED BY <1>4, <1>8, <1>9 DEF n, x

\* A metric, its points, the aggregate.
LEMMA AggregateOrder ==
  ASSUME ApiAssumption, NEW q \in Requests, q.op = "aggregate"
  PROVE  /\ Len(Script(q)) = q.items + 2
         /\ Script(q)[1] = PutOf("metric", 1, "active")
         /\ \A i \in 1 .. q.items : Script(q)[1 + i] = PutOf("point", i, "computed")
         /\ Script(q)[q.items + 2] = PutOf("aggregate", 1, "completed")
<1> DEFINE n == q.items
           T == Statements({"metric", "point", "aggregate"}, {})
           x == PutOf("metric", 1, "active")
           z == PutOf("aggregate", 1, "completed")
           F == PutLoop(n, "point", "computed")
           a == <<x>>
           d == <<z>>
<1>1. n \in Nat
      BY DEF ApiAssumption
<1>2. Script(q) = a \o F \o d
      BY DEF Script, Aggregate, PutLoop, Put, PutOf
<1>3. x \in T /\ z \in T
      BY DEF PutOf, Statements, Statuses
<1>4. F \in Seq(T) /\ Len(F) = n /\ \A i \in 1 .. n : F[i] = PutOf("point", i, "computed")
  <2>1. "computed" \in Statuses /\ "point" \in {"metric", "point", "aggregate"}
        BY DEF Statuses
  <2> QED BY <1>1, <2>1, LoopIn
<1> HIDE DEF T, F, x, z, n
<1>5. a \in Seq(T) /\ d \in Seq(T)
      BY <1>3
<1>6. Len(a) = 1 /\ a[1] = x /\ Len(d) = 1 /\ d[1] = z
      BY <1>3
<1> HIDE DEF a, d
<1>7. InOrder(Script(q), a, F, d)
      BY <1>2, <1>4, <1>5, Around
<1>8. /\ Len(Script(q)) = n + 2 /\ Script(q)[1] = x
      /\ \A i \in 1 .. n : Script(q)[1 + i] = F[i]
      /\ Script(q)[1 + n + 1] = z
  <2>1. 1 \in 1 .. 1 /\ 1 + n + 1 = n + 2
        BY <1>1
  <2> QED BY <1>1, <1>4, <1>6, <1>7, <2>1 DEF InOrder
<1>9. 1 + n + 1 = n + 2
      BY <1>1
<1> QED BY <1>4, <1>8, <1>9 DEF n, x, z

\* A test and a row for each item that is restored.
LEMMA RestoreOrder ==
  ASSUME ApiAssumption, NEW q \in Requests, q.op = "restore"
  PROVE  /\ Len(Script(q)) = 2 * q.items
         /\ \A i \in 1 .. q.items : /\ Script(q)[2 * i - 1] = ItemTest(i)
                                    /\ Script(q)[2 * i] = PutOf("project", i, "active")
<1>1. q.items \in Nat
      BY DEF ApiAssumption
<1>2. Script(q) = RestoreLoop(q.items)
      BY DEF Script, Restore, RestoreLoop
<1> QED BY <1>1, <1>2, RestoreLoopIs

\* Where the statements of a short script lie.
LEMMA Few ==
  ASSUME NEW T, NEW x \in T, NEW y \in T, NEW z \in T, NEW u \in T, NEW v \in T, NEW w \in T
  PROVE  /\ LET L == <<x>> \o <<y>> IN Len(L) = 2 /\ L[1] = x /\ L[2] = y
         /\ LET L == <<x>> \o <<y>> \o <<z>> IN Len(L) = 3 /\ L[1] = x /\ L[2] = y /\ L[3] = z
         /\ LET L == <<x>> \o <<y>> \o <<z>> \o <<u>> IN
              Len(L) = 4 /\ L[1] = x /\ L[2] = y /\ L[3] = z /\ L[4] = u
         /\ LET L == <<x>> \o <<y>> \o <<z>> \o <<u>> \o <<v>> \o <<w>> IN
              Len(L) = 6 /\ L[1] = x /\ L[2] = y /\ L[3] = z /\ L[4] = u /\ L[5] = v /\ L[6] = w
OBVIOUS

\* The scripts without a loop.
LEMMA UploadOrder ==
  ASSUME NEW q, q.op = "upload"
  PROVE  /\ Len(Script(q)) = 6
         /\ Script(q)[1] = PutOf("file", 1, "stored")
         /\ Script(q)[2] = PutOf("job", 1, "processing")
         /\ Script(q)[3] = AskOf("extractor")
         /\ Script(q)[4] = PutOf("document", 1, "ready")
         /\ Script(q)[5] = PutOf("content", 1, "ready")
         /\ Script(q)[6] = PutOf("job", 1, "completed")
<1> DEFINE x == PutOf("file", 1, "stored")
           y == PutOf("job", 1, "processing")
           z == AskOf("extractor")
           u == PutOf("document", 1, "ready")
           v == PutOf("content", 1, "ready")
           w == PutOf("job", 1, "completed")
<1>1. Script(q) = <<x>> \o <<y>> \o <<z>> \o <<u>> \o <<v>> \o <<w>>
      BY DEF Script, Upload, Put, Ask, PutOf, AskOf
<1> HIDE DEF x, y, z, u, v, w
<1> DEFINE T == {x, y, z, u, v, w}
<1>2. x \in T /\ y \in T /\ z \in T /\ u \in T /\ v \in T /\ w \in T
      OBVIOUS
<1> HIDE DEF T
<1> QED BY <1>1, <1>2, Few DEF x, y, z, u, v, w

\* The answer follows the completion of its request.
LEMMA GenerateOrder ==
  ASSUME NEW q, q.op = "generate"
  PROVE  /\ Len(Script(q)) = 4
         /\ Script(q)[1] = PutOf("request", 1, "running")
         /\ Script(q)[2] = AskOf("model")
         /\ Script(q)[3] = PutOf("request", 1, "completed")
         /\ Script(q)[4] = PutOf("response", 1, "completed")
<1> DEFINE x == PutOf("request", 1, "running")
           y == AskOf("model")
           z == PutOf("request", 1, "completed")
           u == PutOf("response", 1, "completed")
<1>1. Script(q) = <<x>> \o <<y>> \o <<z>> \o <<u>>
      BY DEF Script, Generate, Put, Ask, PutOf, AskOf
<1> HIDE DEF x, y, z, u
<1> DEFINE T == {x, y, z, u}
<1>2. x \in T /\ y \in T /\ z \in T /\ u \in T
      OBVIOUS
<1> HIDE DEF T
<1> QED BY <1>1, <1>2, Few DEF x, y, z, u

\* The page is before the crawl.
LEMMA CrawlOrder ==
  ASSUME NEW q, q.op = "crawl"
  PROVE  /\ Len(Script(q)) = 3
         /\ Script(q)[1] = AskOf("fetch")
         /\ Script(q)[2] = PutOf("page", 1, "fetched")
         /\ Script(q)[3] = PutOf("crawl", 1, "completed")
<1> DEFINE x == AskOf("fetch")
           y == PutOf("page", 1, "fetched")
           z == PutOf("crawl", 1, "completed")
<1>1. Script(q) = <<x>> \o <<y>> \o <<z>>
      BY DEF Script, Crawl, Fetch, Put, Ask, PutOf, AskOf
<1> HIDE DEF x, y, z
<1> DEFINE T == {x, y, z}
<1>2. x \in T /\ y \in T /\ z \in T
      OBVIOUS
<1> HIDE DEF T
<1> QED BY <1>1, <1>2, Few DEF x, y, z

\* The file is before the download.
LEMMA DownloadOrder ==
  ASSUME NEW q, q.op = "download"
  PROVE  /\ Len(Script(q)) = 3
         /\ Script(q)[1] = AskOf("fetch")
         /\ Script(q)[2] = PutOf("file", 1, "stored")
         /\ Script(q)[3] = PutOf("download", 1, "completed")
<1> DEFINE x == AskOf("fetch")
           y == PutOf("file", 1, "stored")
           z == PutOf("download", 1, "completed")
<1>1. Script(q) = <<x>> \o <<y>> \o <<z>>
      BY DEF Script, Download, Put, Ask, PutOf, AskOf
<1> HIDE DEF x, y, z
<1> DEFINE T == {x, y, z}
<1>2. x \in T /\ y \in T /\ z \in T
      OBVIOUS
<1> HIDE DEF T
<1> QED BY <1>1, <1>2, Few DEF x, y, z

\* A delivery ends with the notice and then the delivery; the mail is before them.
Delivers(L, q) ==
  /\ Len(L) >= 2 /\ L[Len(L) - 1] = PutOf("notice", 1, "delivered")
       /\ L[Len(L)] = PutOf("delivery", 1, "delivered")
  /\ q.channel = "email" => Len(L) > 2 /\ L[Len(L) - 2] = AskOf("mail")

\* A delivery that delivers has this form; the others write nothing delivered.
LEMMA DeliveryIs ==
  ASSUME NEW q
  PROVE  /\ Delivery(q) \in Seq(Statements({"notice", "delivery"}, {"mail"}))
         /\ \A i \in 1 .. Len(Delivery(q)) :
              Delivery(q)[i].do = "put" /\ Delivery(q)[i].status = "delivered" => Delivers(Delivery(q), q)
<1> DEFINE T == Statements({"notice", "delivery"}, {"mail"})
           D == Delivery(q)
           x == PutOf("notice", 1, "delivered")
           y == PutOf("delivery", 1, "delivered")
           z == AskOf("mail")
           u == PutOf("delivery", 1, "suppressed")
           v == [do |-> "test", kind |-> "never", n |-> 0, status |-> ""]
<1>1. x \in T /\ y \in T /\ z \in T /\ u \in T /\ v \in T /\ u.status = "suppressed" /\ v.do = "test"
      BY DEF PutOf, AskOf, Statements, Statuses
<1>2. /\ ~ q.allowed => D = <<u>>
      /\ q.allowed /\ q.channel = "database" => D = <<x>> \o <<y>>
      /\ q.allowed /\ q.channel = "email" /\ q.recipient => D = <<z>> \o <<x>> \o <<y>>
      /\ q.allowed /\ q.channel # "database" /\ ~ (q.channel = "email" /\ q.recipient) => D = <<v>>
      BY DEF Delivery, Put, Ask, Test, PutOf, AskOf
<1> HIDE DEF T, D, x, y, z, u, v
<1>3. CASE ~ q.allowed
  <2>0. D = <<u>>
        BY <1>2, <1>3
  <2>1. D \in Seq(T) /\ Len(D) = 1 /\ D[1] = u
        BY <1>1, <2>0
  <2> QED BY <1>1, <2>1 DEF D, T
<1>4. CASE q.allowed /\ q.channel = "database"
  <2>0. D = <<x>> \o <<y>>
        BY <1>2, <1>4
  <2>1. D \in Seq(T)
        BY <1>1, <2>0
  <2>2. Len(D) = 2 /\ D[1] = x /\ D[2] = y
        BY <1>1, <2>0, Few
  <2> QED BY <1>4, <2>1, <2>2 DEF D, T, Delivers, x, y
<1>5. CASE q.allowed /\ q.channel = "email" /\ q.recipient
  <2>0. D = <<z>> \o <<x>> \o <<y>>
        BY <1>2, <1>5
  <2>1. D \in Seq(T)
        BY <1>1, <2>0
  <2>3. x \in T /\ y \in T /\ z \in T
        BY <1>1
  <2>2. Len(D) = 3 /\ D[1] = z /\ D[2] = x /\ D[3] = y
    <3> DEFINE L == <<z>> \o <<x>> \o <<y>>
    <3>1. Len(L) = 3 /\ L[1] = z /\ L[2] = x /\ L[3] = y
          BY <2>3
    <3> HIDE DEF L
    <3>2. D = L
          BY <2>0 DEF L
    <3> QED BY <3>1, <3>2
  <2> QED BY <2>1, <2>2 DEF D, T, Delivers, x, y, z
<1>6. CASE q.allowed /\ q.channel # "database" /\ ~ (q.channel = "email" /\ q.recipient)
  <2>0. D = <<v>>
        BY <1>2, <1>6
  <2>1. D \in Seq(T) /\ Len(D) = 1 /\ D[1] = v
        BY <1>1, <2>0
  <2> QED BY <1>1, <2>1 DEF D, T
<1> QED BY <1>3, <1>4, <1>5, <1>6

\* In both operations that deliver.
LEMMA DeliveryOrder ==
  ASSUME NEW q, q.op \in {"notify", "deliver"}, NEW i \in 1 .. Len(Script(q)),
         Script(q)[i].do = "put", Script(q)[i].status = "delivered"
  PROVE  i >= First(q) /\ Delivers(Script(q), q)
<1> DEFINE L == Script(q)
           D == Delivery(q)
<1>1. CASE q.op = "deliver"
  <2>1. L = D
        BY <1>1 DEF Script
  <2>2. First(q) = 1
        BY <1>1 DEF First
  <2> HIDE DEF L
  <2>3. i \in 1 .. Len(D) /\ D[i].do = "put" /\ D[i].status = "delivered" /\ i >= 1
        BY <2>1 DEF L
  <2>4. Delivers(D, q)
        BY <2>3, DeliveryIs
  <2> QED BY <2>1, <2>2, <2>3, <2>4 DEF L
<1>2. CASE q.op = "notify"
  <2> DEFINE T == Statements({"notice", "delivery"}, {"mail"})
             x == PutOf("notice", 1, "queued")
  <2>1. L = <<x>> \o D
        BY <1>2 DEF Script, Notify, Put, PutOf
  <2>2. x \in T /\ x.status = "queued"
        BY DEF PutOf, Statements, Statuses
  <2>3. D \in Seq(T) /\ First(q) = 2
        BY <1>2, DeliveryIs DEF First
  <2> HIDE DEF L, D, T, x
  <2>4. Len(L) = Len(D) + 1 /\ L[1] = x /\ \A j \in 1 .. Len(D) : L[j + 1] = D[j]
        BY <2>1, <2>2, <2>3
  <2>5. Len(D) \in Nat
        BY <2>3
  <2>6. i \in 2 .. Len(D) + 1
        BY <2>2, <2>4, <2>5 DEF L
  <2>7. i - 1 \in 1 .. Len(D) /\ L[i] = D[i - 1]
    <3>1. i - 1 \in 1 .. Len(D) /\ (i - 1) + 1 = i
          BY <2>5, <2>6
    <3> QED BY <2>4, <3>1
  <2>8. Delivers(D, q)
        BY <2>7, DeliveryIs DEF L, D
  <2>9. Delivers(L, q)
    <3>1. /\ Len(D) >= 2 /\ D[Len(D) - 1] = PutOf("notice", 1, "delivered")
               /\ D[Len(D)] = PutOf("delivery", 1, "delivered")
          /\ q.channel = "email" => Len(D) > 2 /\ D[Len(D) - 2] = AskOf("mail")
          BY <2>8 DEF Delivers
    <3>2. Len(L) >= 2 /\ L[Len(L) - 1] = D[Len(D) - 1] /\ L[Len(L)] = D[Len(D)]
      <4>1. Len(D) - 1 \in 1 .. Len(D) /\ Len(D) \in 1 .. Len(D) /\ Len(L) - 1 = (Len(D) - 1) + 1
            BY <2>4, <2>5, <3>1
      <4> QED BY <2>4, <2>5, <3>1, <4>1
    <3>3. Len(D) > 2 => Len(L) > 2 /\ L[Len(L) - 2] = D[Len(D) - 2]
      <4>1. Len(D) > 2 => Len(D) - 2 \in 1 .. Len(D) /\ Len(L) - 2 = (Len(D) - 2) + 1
            BY <2>4, <2>5
      <4> QED BY <2>4, <2>5, <4>1
    <3> QED BY <3>1, <3>2, <3>3 DEF Delivers
  <2> QED BY <2>3, <2>6, <2>9 DEF L
<1> QED BY <1>1, <1>2

-----------------------------------------------------------------------------
(* What a row says of the others. *)

Done(c) == Committed(what[c], line[c])
Fell(c) == Failed(served[c], what[c], line[c])

\* Where a row comes from.
LEMMA RowFrom ==
  ASSUME ApiAssumption, ApiInv, NEW c \in Calls, NEW r \in rows, r.call = c
  PROVE  /\ what[c] \in Requests /\ what[c].op \in Operations /\ r.kind \in Kinds[what[c].op]
         /\ Done(c) \in Nat /\ Done(c) <= Len(Script(what[c])) /\ Len(Script(what[c])) \in Nat
         /\ Done(c) = Len(Script(what[c])) => ~ Fell(c)
         /\ Together(what[c]) # {} /\ Done(c) >= First(what[c]) => Done(c) = Len(Script(what[c]))
              /\ line[c] = Done(c) + 1
         /\ MailGood(c, what[c], line[c], mails)
         /\ what[c].op \in Syncs => Threaded(c, rows)
         /\ \/ \E i \in 1 .. Done(c) : Script(what[c])[i].do = "put" /\ r = Row(c, Script(what[c])[i])
            \/ what[c].op = "deliver" /\ r = Row(c, PutOf("notice", 1, "queued"))
            \/ Fell(c) /\ what[c].op = "upload" /\ r = Row(c, PutOf("job", 1, "failed"))
            \/ Fell(c) /\ what[c].op = "generate" /\ r = Row(c, PutOf("request", 1, "failed"))
<1> DEFINE q == what[c]
           L == Script(q)
           n == Len(L)
           now == line[c]
           k == Done(c)
<1>1. CallGood(c, served[c], q, now, open[c], rows, mails)
      BY DEF ApiInv, CallInv
<1>2. served[c] # "no"
      BY <1>1 DEF CallGood
<1>3. /\ q \in Requests /\ now \in 1 .. n + 1 /\ MailGood(c, q, now, mails)
      /\ RowsGood(c, q, k, Fell(c), Early(q) \cup Late(served[c], q, now), rows)
      BY <1>1, <1>2 DEF CallGood, Done, Fell
<1>4. q.op \in Operations /\ n \in Nat /\ DOMAIN L = 1 .. n /\ First(q) \in {1, 2}
      BY <1>3, TogetherIs DEF ApiAssumption
<1>5. Together(q) # {} => Together(q) = First(q) .. n /\ First(q) <= n
      BY <1>3, TogetherIs
<1>6. k \in Nat /\ k <= n /\ (k = n => now = n + 1) /\ (Together(q) # {} /\ k >= First(q) => k = n)
  <2>1. CASE now \in Together(q)
    <3>1. k = First(q) - 1
          BY <2>1 DEF Done, Committed
    <3> QED BY <1>4, <1>5, <2>1, <3>1
  <2>2. CASE now \notin Together(q)
    <3>1. k = now - 1
          BY <2>2 DEF Done, Committed
    <3> QED BY <1>3, <1>4, <1>5, <2>2, <3>1
  <2> QED BY <2>1, <2>2
<1>7. k = n => ~ Fell(c)
  <2> SUFFICES ASSUME k = n PROVE now \notin DOMAIN L
      BY DEF Fell, Failed
  <2> QED BY <1>4, <1>6
<1>8. /\ r.kind \in Kinds[q.op]
      /\ \E p \in Puts(q, 1, k) \cup Early(q) \cup Late(served[c], q, now) : r = Row(c, p)
      /\ q.op \in Syncs => Threaded(c, rows)
      BY <1>3 DEF RowsGood, Sourced
<1>9. ASSUME NEW p \in Early(q)
      PROVE  q.op = "deliver" /\ p = PutOf("notice", 1, "queued")
      BY <1>9, PutIs DEF Early
<1>10. ASSUME NEW p \in Late(served[c], q, now)
       PROVE  /\ Fell(c)
              /\ \/ q.op = "upload" /\ p = PutOf("job", 1, "failed")
                 \/ q.op = "generate" /\ p = PutOf("request", 1, "failed")
  <2> DEFINE kind == L[now].kind
  <2>1. Fell(c) /\ p \in ToSet(Told(kind)) /\ now \in 1 .. n /\ L[now].do = "ask"
        BY <1>4, <1>10 DEF Late, Fell, Failed
  <2>2. kind \in Services(q.op)
        BY <1>3, <2>1, StatementIs
  <2> HIDE DEF kind
  <2>3. CASE kind = "extractor"
    <3>1. p \in ToSet(Told("extractor")) /\ q.op = "upload"
          BY <2>1, <2>2, <2>3 DEF Services
    <3> QED BY <2>1, <3>1, ToldIs
  <2>4. CASE kind = "model"
    <3>1. p \in ToSet(Told("model")) /\ q.op = "generate"
          BY <2>1, <2>2, <2>4 DEF Services
    <3> QED BY <2>1, <3>1, ToldIs
  <2>5. CASE kind \notin {"extractor", "model"}
        BY <2>1, <2>5, ToldIs
  <2> QED BY <2>3, <2>4, <2>5
<1>11. ASSUME NEW p \in Puts(q, 1, k)
       PROVE  \E i \in 1 .. k : L[i].do = "put" /\ p = L[i]
       BY DEF Puts
<1>12.
         \/ \E i \in 1 .. k : L[i].do = "put" /\ r = Row(c, L[i])
         \/ q.op = "deliver" /\ r = Row(c, PutOf("notice", 1, "queued"))
         \/ Fell(c) /\ q.op = "upload" /\ r = Row(c, PutOf("job", 1, "failed"))
         \/ Fell(c) /\ q.op = "generate" /\ r = Row(c, PutOf("request", 1, "failed"))
  <2>1. PICK p \in Puts(q, 1, k) \cup Early(q) \cup Late(served[c], q, now) : r = Row(c, p)
        BY <1>8
  <2>2. CASE p \in Puts(q, 1, k)
        BY <1>11, <2>1, <2>2
  <2>3. CASE p \in Early(q)
        BY <1>9, <2>1, <2>3
  <2>4. CASE p \in Late(served[c], q, now)
        BY <1>10, <2>1, <2>4
  <2> QED BY <2>1, <2>2, <2>3, <2>4
<1>13. Together(q) # {} /\ k >= First(q) => k = n /\ now = k + 1
       BY <1>6
<1> QED BY <1>3, <1>4, <1>6, <1>7, <1>8, <1>12, <1>13

\* A statement that is committed has its row, unless a later one replaced it.
LEMMA Stands ==
  ASSUME ApiAssumption, ApiInv, NEW c \in Calls, served[c] # "no", what[c].op \notin Syncs,
         ~ Fell(c),
         NEW i \in 1 .. Done(c), Script(what[c])[i].do = "put", Latest(what[c], i, Done(c))
  PROVE  Row(c, Script(what[c])[i]) \in rows
<1>1. CallGood(c, served[c], what[c], line[c], open[c], rows, mails)
      BY DEF ApiInv, CallInv
<1> QED BY <1>1 DEF CallGood, RowsGood, Standing, Done, Fell

\* Some kinds of rows belong to one operation.
LEMMA WhoseKind ==
  ASSUME NEW op \in Operations
  PROVE  /\ "job" \in Kinds[op] => op = "upload"
         /\ "query" \in Kinds[op] => op = "search"
         /\ "response" \in Kinds[op] => op = "generate"
         /\ "aggregate" \in Kinds[op] => op = "aggregate"
         /\ "crawl" \in Kinds[op] => op = "crawl"
         /\ "download" \in Kinds[op] => op = "download"
         /\ "plan" \in Kinds[op] => op = "plan"
         /\ "delivery" \in Kinds[op] \/ "notice" \in Kinds[op] => op \in {"notify", "deliver"}
         /\ "message" \in Kinds[op] => op \in Syncs
         /\ "project" \in Kinds[op] => op = "restore"
BY DEF Kinds, Operations, Syncs

\* A row whose statement is none of a failure's.
LEMMA RowIs ==
  ASSUME ApiAssumption, ApiInv, NEW c \in Calls, NEW r \in rows, r.call = c,
         r.status \notin {"failed", "queued"} \/ r.kind \notin {"job", "request", "notice"}
  PROVE  /\ served[c] # "no" /\ what[c] \in Requests /\ what[c].op \in Operations
              /\ r.kind \in Kinds[what[c].op]
         /\ Done(c) \in Nat /\ Done(c) <= Len(Script(what[c])) /\ Len(Script(what[c])) \in Nat
         /\ \E i \in 1 .. Done(c) : LET x == Script(what[c])[i] IN
                x.do = "put" /\ x.kind = r.kind /\ x.n = r.n /\ x.status = r.status
<1>1. served[c] # "no"
      BY DEF ApiInv, CallInv, CallGood
<1>2. \A p : Row(c, p).kind = p.kind /\ Row(c, p).n = p.n /\ Row(c, p).status = p.status
      BY DEF Row
<1>3. \A k : /\ PutOf(k, 1, "failed").status = "failed" /\ PutOf(k, 1, "queued").status = "queued"
             /\ PutOf(k, 1, "failed").kind = k /\ PutOf(k, 1, "queued").kind = k
      BY DEF PutOf
<1> QED BY <1>1, <1>2, <1>3, RowFrom

\* The fields of a statement and of its row.
LEMMA PutFields ==
  ASSUME NEW k, NEW n, NEW s
  PROVE  /\ PutOf(k, n, s).do = "put" /\ PutOf(k, n, s).kind = k /\ PutOf(k, n, s).n = n
              /\ PutOf(k, n, s).status = s
         /\ \A c : Row(c, PutOf(k, n, s)) = [call |-> c, kind |-> k, n |-> n, status |-> s]
BY DEF PutOf, Row

\* A completed job is the last statement of an upload; a failed one ended at the extractor.
LEMMA UploadTrue ==
  ASSUME ApiAssumption, ApiInv, NEW c \in Calls
  PROVE  /\ Has(c, "job", 1, "completed") => Some(c, "document") /\ Some(c, "content")
         /\ Has(c, "job", 1, "failed") => ~ Some(c, "document")
<1> DEFINE q == what[c]
           L == Script(q)
           k == Done(c)
<1>0. q.op = "upload" =>
        /\ Len(L) = 6 /\ L[1].kind = "file" /\ L[2].do = "put" /\ L[2].kind = "job"
             /\ L[2].status = "processing" /\ L[3].do = "ask"
        /\ L[4].do = "put" /\ L[4].kind = "document" /\ L[5].do = "put" /\ L[5].kind = "content"
        /\ L[6].kind = "job" /\ L[6].status = "completed"
  <2> SUFFICES ASSUME q.op = "upload" 
               PROVE  /\ Len(L) = 6 /\ L[1].kind = "file" /\ L[2].do = "put" /\ L[2].kind = "job"
                           /\ L[2].status = "processing" /\ L[3].do = "ask"
                      /\ L[4].do = "put" /\ L[4].kind = "document" /\ L[5].do = "put" /\ L[5].kind = "content"
                      /\ L[6].kind = "job" /\ L[6].status = "completed"
      OBVIOUS
  <2>1. AskOf("extractor").do = "ask"
        BY DEF AskOf
  <2> HIDE DEF L
  <2>2. /\ Len(L) = 6 /\ L[1] = PutOf("file", 1, "stored") /\ L[2] = PutOf("job", 1, "processing")
        /\ L[3] = AskOf("extractor") /\ L[4] = PutOf("document", 1, "ready")
             /\ L[5] = PutOf("content", 1, "ready")
        /\ L[6] = PutOf("job", 1, "completed")
        BY UploadOrder DEF L
  <2> QED BY <2>1, <2>2, PutFields
<1>1. ASSUME Has(c, "job", 1, "completed")
      PROVE  Some(c, "document") /\ Some(c, "content")
  <2>1. PICK r \in rows : r = [call |-> c, kind |-> "job", n |-> 1, status |-> "completed"]
        BY <1>1 DEF Has
  <2>2. r.call = c /\ r.kind = "job" /\ r.status = "completed"
        BY <2>1
  <2>3. /\ served[c] # "no" /\ q.op \in Operations /\ "job" \in Kinds[q.op] /\ k \in Nat /\ k <= Len(L)
        /\ \E i \in 1 .. k : L[i].do = "put" /\ L[i].kind = "job"
             /\ L[i].status = "completed"
    <3>1. r.status \notin {"failed", "queued"}
          BY <2>2
    <3> QED BY <2>2, <3>1, RowIs
  <2>4. q.op = "upload"
        BY <2>3, WhoseKind
  <2>5. PICK i \in 1 .. k : L[i].do = "put" /\ L[i].kind = "job" /\ L[i].status = "completed"
        BY <2>3, <2>4
  <2> HIDE DEF k, L
  <2>6. i \in 1 .. 6 /\ k <= 6
    <3>1. Len(L) = 6
          BY <1>0, <2>4
    <3>2. k \in Nat /\ k <= 6
          BY <2>3, <3>1
    <3> QED BY <3>2
  <2>7. i = 6 /\ k = 6
        BY <1>0, <2>3, <2>4, <2>5, <2>6
  <2>8. ~ Fell(c)
        BY <1>0, <2>2, <2>4, <2>7, RowFrom DEF k, L
  <2>9. Latest(q, 4, k) /\ Latest(q, 5, k)
        BY <1>0, <2>4, <2>7 DEF Latest, L
  <2>10. 4 \in 1 .. k /\ 5 \in 1 .. k
        BY <2>7
  <2>11. q.op \notin Syncs
        BY <2>4 DEF Syncs
  <2>12. Row(c, L[4]) \in rows /\ Row(c, L[5]) \in rows
        BY <1>0, <2>3, <2>4, <2>8, <2>9, <2>10, <2>11, Stands DEF k, L
  <2> QED BY <1>0, <2>4, <2>12 DEF Some, Row
<1>2. ASSUME Has(c, "job", 1, "failed"), Some(c, "document")
      PROVE  FALSE
  <2>1. PICK r \in rows : r = [call |-> c, kind |-> "job", n |-> 1, status |-> "failed"]
        BY <1>2 DEF Has
  <2>2. r.call = c /\ r.kind = "job" /\ r.status = "failed"
        BY <2>1
  <2>3. q.op = "upload"
        BY <2>2, RowFrom, WhoseKind
  <2> HIDE DEF k, L
  <2>4. /\ k \in Nat /\ k <= 6 /\ (k = 6 => ~ Fell(c))
        /\ (\E i \in 1 .. k : L[i].do = "put" /\ r = Row(c, L[i])) \/ Fell(c)
    <3>1. k \in Nat /\ k <= Len(L) /\ (k = Len(L) => ~ Fell(c))
          BY <2>2, RowFrom DEF k, L
    <3>2. \/ \E i \in 1 .. k : L[i].do = "put" /\ r = Row(c, L[i])
          \/ q.op = "deliver" \/ Fell(c)
          BY <2>2, RowFrom DEF k, L
    <3>3. Len(L) = 6
          BY <1>0, <2>3
    <3> QED BY <2>3, <3>1, <3>2, <3>3
  <2>5. ~ \E i \in 1 .. k : L[i].do = "put" /\ r = Row(c, L[i])
    <3> SUFFICES ASSUME NEW i \in 1 .. k, L[i].do = "put", r = Row(c, L[i]) PROVE FALSE
        OBVIOUS
    <3>1. L[i].kind = "job" /\ L[i].status = "failed"
          BY <2>2 DEF Row
    <3>2. i \in 1 .. 6
          BY <2>4
    <3> QED BY <1>0, <2>3, <3>1, <3>2
  <2>6. Fell(c)
        BY <2>4, <2>5
  <2>7. line[c] = 3 /\ k = 2
    <3>1. line[c] \in DOMAIN L /\ L[line[c]].do = "ask"
          BY <2>6 DEF Fell, Failed, L
    <3>2. DOMAIN L = 1 .. 6
      <4>1. L \in Seq(Statements(Kinds[q.op], Services(q.op)))
            BY <2>2, RowFrom, TogetherIs DEF L
      <4> QED BY <1>0, <2>3, <4>1
    <3>3. line[c] \in 1 .. 6
          BY <3>1, <3>2
    <3>4. 1 \in 1 .. 6 /\ 6 \in 1 .. 6 /\ L[1].do = "put" /\ L[6].do = "put"
          BY <2>3, UploadOrder, PutFields DEF L
    <3>5. line[c] = 3
          BY <1>0, <2>3, <3>1, <3>3, <3>4
    <3>6. Together(q) = {}
          BY <2>3 DEF Together
    <3> QED BY <3>5, <3>6 DEF k, Done, Committed
  <2>8. PICK d \in rows : d.call = c /\ d.kind = "document"
        BY <1>2 DEF Some
  <2>9. \A p : Row(c, p).kind = p.kind
        BY DEF Row
  <2>10. PICK i \in 1 .. k : L[i].do = "put" /\ d = Row(c, L[i])
        BY <2>3, <2>8, <2>9, RowFrom, PutFields DEF k, L
  <2>11. L[i].kind = "document" /\ i \in 1 .. 2
        BY <2>7, <2>8, <2>9, <2>10
  <2> QED BY <1>0, <2>3, <2>11
<1> QED BY <1>1, <1>2

\* A completed query is the last statement of a search, and each result has a row of its own.
LEMMA SearchTrue ==
  ASSUME ApiAssumption, ApiInv, NEW c \in Calls, Has(c, "query", 1, "completed")
  PROVE  \A m \in 1 .. what[c].items : Has(c, "result", m, "retrieved")
<1> DEFINE q == what[c]
           L == Script(q)
           k == Done(c)
           n == q.items
<1>1. PICK r \in rows : r = [call |-> c, kind |-> "query", n |-> 1, status |-> "completed"]
      BY DEF Has
<1>2. r.call = c /\ r.kind = "query" /\ r.status = "completed"
      BY <1>1
<1>3. /\ served[c] # "no" /\ q \in Requests /\ q.op \in Operations /\ "query" \in Kinds[q.op] /\ k \in Nat
           /\ k <= Len(L)
      /\ \E i \in 1 .. k : L[i].do = "put" /\ L[i].kind = "query"
           /\ L[i].status = "completed"
      /\ (k = Len(L) => ~ Fell(c))
      BY <1>2, RowIs, RowFrom
<1>4. q.op = "search" /\ q.op \notin Syncs
      BY <1>3, WhoseKind DEF Syncs
<1>5. n \in Nat
      BY <1>3 DEF ApiAssumption
<1> HIDE DEF k, L, n
<1>6. /\ Len(L) = n + 3 /\ L[1] = PutOf("query", 1, "running") /\ L[2].do = "ask"
      /\ \A i \in 1 .. n : L[2 + i] = PutOf("result", i, "retrieved")
      /\ L[n + 3] = PutOf("query", 1, "completed")
      BY <1>3, <1>4, SearchOrder DEF L, n
<1>7. \A j \in 1 .. n + 3 : j = 1 \/ j = 2 \/ j = n + 3 \/ (j - 2 \in 1 .. n
        /\ L[j] = PutOf("result", j - 2, "retrieved"))
  <2> SUFFICES ASSUME NEW j \in 1 .. n + 3, j # 1, j # 2, j # n + 3
               PROVE  j - 2 \in 1 .. n /\ L[j] = PutOf("result", j - 2, "retrieved")
      OBVIOUS
  <2>1. j - 2 \in 1 .. n /\ 2 + (j - 2) = j
        BY <1>5
  <2> QED BY <1>6, <2>1
<1>8. PICK i \in 1 .. k : L[i].do = "put" /\ L[i].kind = "query" /\ L[i].status = "completed"
      BY <1>3, <1>4
<1>9. k <= n + 3
      BY <1>3, <1>6
<1>10. i = n + 3
  <2>1. i \in 1 .. n + 3
        BY <1>3, <1>5, <1>9
  <2>2. ~ (i - 2 \in 1 .. n /\ L[i] = PutOf("result", i - 2, "retrieved"))
        BY <1>8, PutFields
  <2>3. i # 1 /\ i # 2
        BY <1>6, <1>8, PutFields
  <2> QED BY <1>7, <2>1, <2>2, <2>3
<1>11. k = n + 3 /\ k = Len(L)
       BY <1>3, <1>5, <1>6, <1>9, <1>10
<1> SUFFICES ASSUME NEW m \in 1 .. n PROVE Has(c, "result", m, "retrieved")
    BY DEF n
<1>12. Latest(q, 2 + m, k)
  <2> SUFFICES ASSUME NEW j \in 2 + m + 1 .. k, L[j].do = "put"
               PROVE  <<L[j].kind, L[j].n>> # <<L[2 + m].kind, L[2 + m].n>>
      BY DEF Latest, L
  <2>1. j \in 1 .. n + 3 /\ j # 1 /\ j # 2 /\ j - 2 # m
        BY <1>5, <1>11
  <2>2. L[2 + m].kind = "result" /\ L[2 + m].n = m
        BY <1>6, PutFields
  <2>3. CASE j = n + 3
    <3>1. L[j].kind = "query"
          BY <1>6, <2>3, PutFields
    <3> QED BY <2>2, <3>1
  <2>4. CASE L[j] = PutOf("result", j - 2, "retrieved")
    <3>1. L[j].n = j - 2
          BY <2>4, PutFields
    <3> QED BY <2>1, <2>2, <3>1
  <2> QED BY <1>7, <2>1, <2>3, <2>4
<1>13. 2 + m \in 1 .. k
       BY <1>5, <1>11
<1>14. L[2 + m] = PutOf("result", m, "retrieved") /\ L[2 + m].do = "put"
       BY <1>6, PutFields
<1>15. Row(c, L[2 + m]) \in rows
       BY <1>3, <1>4, <1>11, <1>12, <1>13, <1>14, Stands DEF k, L
<1> QED BY <1>14, <1>15, PutFields DEF Has

\* The answer is the last statement, and nothing marks the request again.
LEMMA GenerateTrue ==
  ASSUME ApiAssumption, ApiInv, NEW c \in Calls, Some(c, "response")
  PROVE  Has(c, "request", 1, "completed")
<1> DEFINE q == what[c]
           L == Script(q)
           k == Done(c)
<1>1. PICK r \in rows : r.call = c /\ r.kind = "response"
      BY DEF Some
<1>2. /\ served[c] # "no" /\ q.op \in Operations /\ "response" \in Kinds[q.op] /\ k \in Nat /\ k <= Len(L)
      /\ \E i \in 1 .. k : L[i].do = "put" /\ L[i].kind = "response"
      /\ (k = Len(L) => ~ Fell(c))
      BY <1>1, RowIs, RowFrom
<1>3. q.op = "generate" /\ q.op \notin Syncs
      BY <1>2, WhoseKind DEF Syncs
<1> HIDE DEF k, L
<1>4. /\ Len(L) = 4 /\ L[1] = PutOf("request", 1, "running") /\ L[2] = AskOf("model")
      /\ L[3] = PutOf("request", 1, "completed") /\ L[4] = PutOf("response", 1, "completed")
      BY <1>3, GenerateOrder DEF L
<1>5. PICK i \in 1 .. k : L[i].do = "put" /\ L[i].kind = "response"
      BY <1>2, <1>3
<1>6. AskOf("model").do = "ask"
      BY DEF AskOf
<1>7. i \in 1 .. 4 /\ k <= 4
  <2>1. k \in Nat /\ k <= 4
        BY <1>2, <1>4
  <2> QED BY <2>1
<1>8. i # 1 /\ i # 2 /\ i # 3
      BY <1>4, <1>5, <1>6, PutFields
<1>9. k = 4 /\ k = Len(L)
      BY <1>2, <1>4, <1>7, <1>8
<1>10. Latest(q, 3, k)
  <2> SUFFICES ASSUME NEW j \in 3 + 1 .. k PROVE L[j].kind # L[3].kind
      BY DEF Latest, L
  <2>1. j = 4
        BY <1>9
  <2> QED BY <1>4, <2>1, PutFields
<1>11. Row(c, L[3]) \in rows
  <2>1. 3 \in 1 .. k /\ L[3].do = "put"
        BY <1>4, <1>9, PutFields
  <2> QED BY <1>2, <1>3, <1>9, <1>10, <2>1, Stands DEF k, L
<1> QED BY <1>4, <1>11, PutFields DEF Has

\* A crawl and a download are the last statements after the page and the file.
LEMMA CrawlTrue ==
  ASSUME ApiAssumption, ApiInv, NEW c \in Calls
  PROVE  (Some(c, "crawl") => Some(c, "page")) /\ (Some(c, "download") => Some(c, "file"))
<1> DEFINE q == what[c]
           L == Script(q)
           k == Done(c)
<1>1. ASSUME NEW kind, NEW last, NEW before, NEW b, last \in {"crawl", "download"}, kind \in {"page", "file"},
             Some(c, last), Len(L) = 3, L[1] = AskOf("fetch"), L[2] = PutOf(kind, 1, b), L[3] = PutOf(last, 1,
             before),
             q.op \in {"crawl", "download"}
      PROVE  Some(c, kind)
  <2>1. PICK r \in rows : r.call = c /\ r.kind = last
        BY <1>1 DEF Some
  <2>2. /\ served[c] # "no" /\ k \in Nat /\ k <= Len(L)
        /\ \E i \in 1 .. k : L[i].do = "put" /\ L[i].kind = last
        /\ (k = Len(L) => ~ Fell(c))
    <3>1. r.kind \notin {"job", "request", "notice"}
          BY <1>1, <2>1
    <3> QED BY <2>1, <3>1, RowIs, RowFrom
  <2> HIDE DEF k, L
  <2>3. PICK i \in 1 .. k : L[i].do = "put" /\ L[i].kind = last
        BY <1>1, <2>2
  <2>4. AskOf("fetch").do = "ask"
        BY DEF AskOf
  <2>5. i \in 1 .. 3 /\ k <= 3
    <3>1. k \in Nat /\ k <= 3
          BY <1>1, <2>2
    <3> QED BY <3>1
  <2>6. i # 1 /\ i # 2
    <3>1. last # kind
          BY <1>1
    <3> QED BY <1>1, <2>3, <2>4, <3>1, PutFields
  <2>7. k = 3 /\ k = Len(L)
        BY <1>1, <2>2, <2>5, <2>6
  <2>8. Latest(q, 2, k)
    <3> SUFFICES ASSUME NEW j \in 2 + 1 .. k PROVE L[j].kind # L[2].kind
        BY DEF Latest, L
    <3>1. j = 3 /\ last # kind
          BY <1>1, <2>7
    <3> QED BY <1>1, <3>1, PutFields
  <2>9. Row(c, L[2]) \in rows
    <3>1. 2 \in 1 .. k /\ L[2].do = "put"
          BY <1>1, <2>7, PutFields
    <3>2. q.op \notin Syncs
          BY <1>1 DEF Syncs
    <3> QED BY <2>2, <2>7, <2>8, <3>1, <3>2, Stands DEF k, L
  <2>10. Row(c, L[2]).call = c /\ Row(c, L[2]).kind = kind
        BY <1>1, PutFields DEF Row
  <2> QED BY <2>9, <2>10 DEF Some
<1>2. ASSUME NEW last \in {"crawl", "download"}, Some(c, last)
      PROVE  (last = "crawl" => q.op = "crawl") /\ (last = "download" => q.op = "download")
  <2>1. PICK r \in rows : r.call = c /\ r.kind = last
        BY <1>2 DEF Some
  <2> QED BY <2>1, RowFrom, WhoseKind
<1>3. Some(c, "crawl") => Some(c, "page")
  <2> SUFFICES ASSUME Some(c, "crawl") PROVE Some(c, "page")
      OBVIOUS
  <2>1. q.op = "crawl"
        BY <1>2
  <2> HIDE DEF L
  <2>2. Len(L) = 3 /\ L[1] = AskOf("fetch") /\ L[2] = PutOf("page", 1, "fetched")
          /\ L[3] = PutOf("crawl", 1, "completed")
        BY <2>1, CrawlOrder DEF L
  <2> QED BY <1>1, <2>1, <2>2
<1>4. Some(c, "download") => Some(c, "file")
  <2> SUFFICES ASSUME Some(c, "download") PROVE Some(c, "file")
      OBVIOUS
  <2>1. q.op = "download"
        BY <1>2
  <2> HIDE DEF L
  <2>2. Len(L) = 3 /\ L[1] = AskOf("fetch") /\ L[2] = PutOf("file", 1, "stored")
          /\ L[3] = PutOf("download", 1, "completed")
        BY <2>1, DownloadOrder DEF L
  <2> QED BY <1>1, <2>1, <2>2
<1> QED BY <1>3, <1>4

\* In a transaction that holds the whole script, what is there was committed with all of it.
LEMMA AllTogether ==
  ASSUME ApiAssumption, ApiInv, NEW c \in Calls, NEW r \in rows, r.call = c, r.kind \notin {"job", "request",
         "notice"},
         what[c].op \in {"plan", "aggregate", "restore"}
  PROVE  /\ served[c] # "no" /\ what[c] \in Requests /\ what[c].items \in Nat
         /\ Done(c) = Len(Script(what[c])) /\ ~ Fell(c) /\ what[c].op \notin Syncs
<1>1. /\ served[c] # "no" /\ what[c] \in Requests /\ Done(c) \in Nat
      /\ \E i \in 1 .. Done(c) : TRUE
      BY RowIs
<1>2. Done(c) >= 1
      BY <1>1
<1>3. First(what[c]) = 1
      BY DEF First
<1>4. Together(what[c]) # {}
  <2>1. Together(what[c]) = 1 .. Len(Script(what[c]))
        BY <1>1, TogetherIs
  <2>2. Len(Script(what[c])) \in Nat /\ Done(c) <= Len(Script(what[c]))
        BY RowFrom
  <2>3. 1 \in 1 .. Len(Script(what[c]))
        BY <1>1, <1>2, <2>2
  <2> QED BY <2>1, <2>3
<1>5. Done(c) = Len(Script(what[c])) /\ ~ Fell(c)
      BY <1>2, <1>3, <1>4, RowFrom
<1>6. what[c].items \in Nat
      BY <1>1 DEF ApiAssumption
<1> QED BY <1>1, <1>5, <1>6 DEF Syncs

\* The aggregate is the last statement of a transaction that holds all its points.
LEMMA AggregateTrue ==
  ASSUME ApiAssumption, ApiInv, NEW c \in Calls, Some(c, "aggregate")
  PROVE  \A m \in 1 .. what[c].items : Has(c, "point", m, "computed")
<1> DEFINE q == what[c]
           L == Script(q)
           k == Done(c)
           n == q.items
<1>1. PICK r \in rows : r.call = c /\ r.kind = "aggregate"
      BY DEF Some
<1>2. q.op = "aggregate"
      BY <1>1, RowFrom, WhoseKind
<1>3. served[c] # "no" /\ q \in Requests /\ n \in Nat /\ k = Len(L) /\ ~ Fell(c)
        /\ q.op \notin Syncs
      BY <1>1, <1>2, AllTogether
<1> HIDE DEF k, L, n
<1>4. /\ Len(L) = n + 2 /\ \A i \in 1 .. n : L[1 + i] = PutOf("point", i, "computed")
      /\ L[n + 2] = PutOf("aggregate", 1, "completed")
      BY <1>2, <1>3, AggregateOrder DEF L, n
<1> SUFFICES ASSUME NEW m \in 1 .. n PROVE Has(c, "point", m, "computed")
    BY DEF n
<1>5. L[1 + m] = PutOf("point", m, "computed")
      BY <1>4
<1>6. Latest(q, 1 + m, k)
  <2> SUFFICES ASSUME NEW j \in 1 + m + 1 .. k
               PROVE  <<L[j].kind, L[j].n>> # <<L[1 + m].kind, L[1 + m].n>>
      BY DEF Latest, L
  <2>1. L[1 + m].kind = "point" /\ L[1 + m].n = m
        BY <1>5, PutFields
  <2>2. CASE j = n + 2
    <3>1. L[j].kind = "aggregate"
          BY <1>4, <2>2, PutFields
    <3> QED BY <2>1, <3>1
  <2>3. CASE j # n + 2
    <3>1. j - 1 \in 1 .. n /\ 1 + (j - 1) = j /\ j - 1 # m
          BY <1>3, <1>4, <2>3
    <3>2. L[j].n = j - 1
          BY <1>4, <3>1, PutFields
    <3> QED BY <2>1, <3>1, <3>2
  <2> QED BY <2>2, <2>3
<1>7. Row(c, L[1 + m]) \in rows
  <2>1. 1 + m \in 1 .. k /\ L[1 + m].do = "put"
        BY <1>3, <1>4, <1>5, PutFields
  <2> QED BY <1>3, <1>6, <2>1, Stands DEF k, L
<1> QED BY <1>5, <1>7, PutFields DEF Has

\* A plan is stored in one transaction with its steps.
LEMMA PlanTrue ==
  ASSUME ApiAssumption, ApiInv, NEW c \in Calls, Some(c, "plan")
  PROVE  \A m \in 1 .. what[c].items : Has(c, "step", m, "pending")
<1> DEFINE q == what[c]
           L == Script(q)
           k == Done(c)
           n == q.items
<1>1. PICK r \in rows : r.call = c /\ r.kind = "plan"
      BY DEF Some
<1>2. q.op = "plan"
      BY <1>1, RowFrom, WhoseKind
<1>3. served[c] # "no" /\ q \in Requests /\ n \in Nat /\ k = Len(L) /\ ~ Fell(c)
        /\ q.op \notin Syncs
      BY <1>1, <1>2, AllTogether
<1> HIDE DEF k, L, n
<1>4. /\ Len(L) = 2 * n + 1 /\ \A i \in 1 .. n : L[1 + i] = PutOf("step", i, "pending")
      /\ \A i \in 1 .. n : L[1 + n + i] = PutOf("risk", i, "open")
      BY <1>2, <1>3, PlanOrder DEF L, n
<1> SUFFICES ASSUME NEW m \in 1 .. n PROVE Has(c, "step", m, "pending")
    BY DEF n
<1>5. L[1 + m] = PutOf("step", m, "pending")
      BY <1>4
<1>6. Latest(q, 1 + m, k)
  <2> SUFFICES ASSUME NEW j \in 1 + m + 1 .. k
               PROVE  <<L[j].kind, L[j].n>> # <<L[1 + m].kind, L[1 + m].n>>
      BY DEF Latest, L
  <2>1. L[1 + m].kind = "step" /\ L[1 + m].n = m
        BY <1>5, PutFields
  <2>2. CASE j > n + 1
    <3>1. j - 1 - n \in 1 .. n /\ 1 + n + (j - 1 - n) = j
          BY <1>3, <1>4, <2>2
    <3>2. L[j].kind = "risk"
          BY <1>4, <3>1, PutFields
    <3> QED BY <2>1, <3>2
  <2>3. CASE ~ (j > n + 1)
    <3>1. j - 1 \in 1 .. n /\ 1 + (j - 1) = j /\ j - 1 # m
          BY <1>3, <1>4, <2>3
    <3>2. L[j].n = j - 1
          BY <1>4, <3>1, PutFields
    <3> QED BY <2>1, <3>1, <3>2
  <2> QED BY <2>2, <2>3
<1>7. Row(c, L[1 + m]) \in rows
  <2>1. 1 + m \in 1 .. k /\ L[1 + m].do = "put"
        BY <1>3, <1>4, <1>5, PutFields
  <2> QED BY <1>3, <1>6, <2>1, Stands DEF k, L
<1> QED BY <1>5, <1>7, PutFields DEF Has

\* A notice and its delivery are stored as delivered together, after the mail has left.
LEMMA DeliveredTrue ==
  ASSUME ApiAssumption, ApiInv, NEW c \in Calls, NEW kind \in {"notice", "delivery"}, Has(c, kind, 1,
         "delivered")
  PROVE  /\ Has(c, "notice", 1, "delivered") /\ Has(c, "delivery", 1, "delivered")
         /\ what[c].channel = "email" => c \in mails
<1> DEFINE q == what[c]
           L == Script(q)
           k == Done(c)
           n == Len(L)
<1>1. PICK r \in rows : r = [call |-> c, kind |-> kind, n |-> 1, status |-> "delivered"]
      BY DEF Has
<1>2. r.call = c /\ r.kind = kind /\ r.status = "delivered" /\ r.status \notin {"failed", "queued"}
      BY <1>1
<1>3. /\ served[c] # "no" /\ q \in Requests /\ q.op \in Operations /\ kind \in Kinds[q.op] /\ k \in Nat
           /\ k <= n /\ n \in Nat
      /\ \E i \in 1 .. k : L[i].do = "put" /\ L[i].status = "delivered"
      /\ (k = n => ~ Fell(c)) /\ (Together(q) # {} /\ k >= First(q) => k = n /\ line[c] = k + 1)
      /\ MailGood(c, q, line[c], mails)
  <2>1. /\ (k = n => ~ Fell(c)) /\ (Together(q) # {} /\ k >= First(q) => k = n /\ line[c] = k + 1)
        /\ MailGood(c, q, line[c], mails)
        BY <1>2, RowFrom
  <2>2. /\ served[c] # "no" /\ q \in Requests /\ q.op \in Operations /\ kind \in Kinds[q.op] /\ k \in Nat
             /\ k <= n /\ n \in Nat
        /\ \E i \in 1 .. k : L[i].do = "put" /\ L[i].status = "delivered"
        BY <1>2, RowIs
  <2> QED BY <2>1, <2>2
<1>4. q.op \in {"notify", "deliver"} /\ q.op \notin Syncs
  <2>1. "delivery" \in Kinds[q.op] \/ "notice" \in Kinds[q.op]
        BY <1>3
  <2>2. q.op \in {"notify", "deliver"}
        BY <1>3, <2>1, WhoseKind
  <2> QED BY <2>2 DEF Syncs
<1>5. First(q) \in {1, 2} /\ (q.op = "notify" => First(q) = 2 /\ Together(q) = 2 .. n)
        /\ (q.op = "deliver" => First(q) = 1 /\ Together(q) = 1 .. n)
      BY <1>3, <1>4, TogetherIs
<1> HIDE DEF k, L
<1>6. PICK i \in 1 .. k : L[i].do = "put" /\ L[i].status = "delivered"
      BY <1>3, <1>4
<1>7. i \in 1 .. n
      BY <1>3
<1>8. i >= First(q) /\ Delivers(L, q)
      BY <1>4, <1>6, <1>7, DeliveryOrder DEF L
<1>9. /\ n >= 2 /\ L[n - 1] = PutOf("notice", 1, "delivered") /\ L[n] = PutOf("delivery", 1, "delivered")
      /\ q.channel = "email" => n > 2 /\ L[n - 2] = AskOf("mail")
      BY <1>8 DEF Delivers
<1> HIDE DEF n
<1>10. k = n /\ line[c] = n + 1 /\ ~ Fell(c)
  <2>1. 2 \in 2 .. n /\ 2 \in 1 .. n
        BY <1>3, <1>9
  <2>2. Together(q) # {}
        BY <1>4, <1>5, <2>1
  <2>3. k >= First(q)
        BY <1>3, <1>5, <1>8
  <2> QED BY <1>3, <2>2, <2>3
<1>11. L[n - 1].do = "put" /\ L[n - 1].kind = "notice" /\ L[n].do = "put" /\ L[n].kind = "delivery"
      BY <1>9, PutFields
<1>12. Latest(q, n - 1, k) /\ Latest(q, n, k)
  <2>1. ASSUME NEW j \in (n - 1) + 1 .. k PROVE j = n
        BY <1>3, <1>10
  <2>2. ASSUME NEW j \in n + 1 .. k PROVE FALSE
        BY <1>3, <1>10
  <2> QED BY <1>11, <2>1, <2>2 DEF Latest, L
<1>13. Row(c, L[n - 1]) \in rows /\ Row(c, L[n]) \in rows
  <2>1. n - 1 \in 1 .. k /\ n \in 1 .. k
        BY <1>3, <1>9, <1>10
  <2> QED BY <1>3, <1>4, <1>10, <1>11, <1>12, <2>1, Stands DEF k, L
<1>14. Has(c, "notice", 1, "delivered") /\ Has(c, "delivery", 1, "delivered")
       BY <1>9, <1>13, PutFields DEF Has
<1>15. ASSUME q.channel = "email"
       PROVE  c \in mails
  <2>1. n - 2 \in 1 .. line[c] - 1 /\ L[n - 2] = AskOf("mail")
        BY <1>3, <1>9, <1>10, <1>15
  <2>2. AskOf("mail").do = "ask" /\ AskOf("mail").kind = "mail"
        BY DEF AskOf
  <2> QED BY <1>3, <2>1, <2>2 DEF MailGood, L
<1> QED BY <1>14, <1>15

\* What is restored is restored in one transaction.
LEMMA RestoreTrue ==
  ASSUME ApiAssumption, ApiInv, NEW c \in Calls, Some(c, "project")
  PROVE  \A m \in 1 .. what[c].items : Has(c, "project", m, "active")
<1> DEFINE q == what[c]
           L == Script(q)
           k == Done(c)
           n == q.items
<1>1. PICK r \in rows : r.call = c /\ r.kind = "project"
      BY DEF Some
<1>2. q.op = "restore"
      BY <1>1, RowFrom, WhoseKind
<1>3. served[c] # "no" /\ q \in Requests /\ n \in Nat /\ k = Len(L) /\ ~ Fell(c)
        /\ q.op \notin Syncs
      BY <1>1, <1>2, AllTogether
<1> HIDE DEF k, L, n
<1>4. /\ Len(L) = 2 * n
      /\ \A i \in 1 .. n : L[2 * i - 1] = ItemTest(i) /\ L[2 * i] = PutOf("project", i, "active")
      BY <1>2, <1>3, RestoreOrder DEF L, n
<1> SUFFICES ASSUME NEW m \in 1 .. n PROVE Has(c, "project", m, "active")
    BY DEF n
<1>5. L[2 * m] = PutOf("project", m, "active") /\ 2 * m \in 1 .. k
      BY <1>3, <1>4
<1>6. Latest(q, 2 * m, k)
  <2> SUFFICES ASSUME NEW j \in 2 * m + 1 .. k, L[j].do = "put"
               PROVE  <<L[j].kind, L[j].n>> # <<L[2 * m].kind, L[2 * m].n>>
      BY DEF Latest, L
  <2> DEFINE i == (j + 1) \div 2
  <2>1. i \in 1 .. n /\ (j = 2 * i - 1 \/ j = 2 * i)
    <3>1. j \in 1 .. 2 * n
          BY <1>3, <1>4
    <3> QED BY <1>3, <3>1
  <2> HIDE DEF i
  <2>2. j = 2 * i
    <3>1. ItemTest(i).do = "test"
          BY DEF ItemTest
    <3> QED BY <1>4, <2>1, <3>1
  <2>3. i # m
        BY <2>2
  <2>4. L[j].n = i /\ L[2 * m].n = m
        BY <1>4, <1>5, <2>1, <2>2, PutFields
  <2> QED BY <2>3, <2>4
<1>7. L[2 * m].do = "put"
      BY <1>5, PutFields
<1>8. Row(c, L[2 * m]) \in rows
      BY <1>3, <1>5, <1>6, <1>7, Stands DEF k, L
<1> QED BY <1>5, <1>8, PutFields DEF Has, Row

\* Messages have their threads by the invariant itself.
LEMMA MessagesTrue ==
  ASSUME ApiAssumption, ApiInv, NEW c \in Calls, NEW m, Has(c, "message", m, "synchronized")
  PROVE  Has(c, "thread", m, "active") /\ Some(c, "account")
<1>1. PICK r \in rows : r = [call |-> c, kind |-> "message", n |-> m, status |-> "synchronized"]
      BY DEF Has
<1>2. r.call = c /\ r.kind = "message" /\ r.n = m
      BY <1>1
<1>3. Threaded(c, rows)
      BY <1>2, RowFrom, WhoseKind
<1>4. Row(c, Thread(m)) \in rows /\ \E s \in rows : s.call = c /\ s.kind = "account"
      BY <1>2, <1>3 DEF Threaded
<1>5. Row(c, Thread(m)) = [call |-> c, kind |-> "thread", n |-> m, status |-> "active"]
      BY DEF Row, Thread
<1> QED BY <1>4, <1>5 DEF Has, Some

\* The invariant says that reports are true.
LEMMA ReportsFollow ==
  ASSUME ApiAssumption, ApiInv
  PROVE  ReportsAreTrue
<1> SUFFICES ASSUME NEW c \in Calls
    PROVE LET q == what[c] IN
      /\ Has(c, "job", 1, "completed") => Some(c, "document") /\ Some(c, "content")
      /\ Has(c, "job", 1, "failed") => ~ Some(c, "document")
      /\ Has(c, "query", 1, "completed") => \A i \in 1 .. q.items : Has(c, "result", i, "retrieved")
      /\ Some(c, "response") => Has(c, "request", 1, "completed")
      /\ Some(c, "aggregate") => \A i \in 1 .. q.items : Has(c, "point", i, "computed")
      /\ Some(c, "crawl") => Some(c, "page")
      /\ Some(c, "download") => Some(c, "file")
      /\ Some(c, "plan") => \A i \in 1 .. q.items : Has(c, "step", i, "pending")
      /\ Has(c, "delivery", 1, "delivered") <=> Has(c, "notice", 1, "delivered")
      /\ Has(c, "delivery", 1, "delivered") /\ q.channel = "email" => c \in mails
      /\ Some(c, "project") => \A i \in 1 .. q.items : Has(c, "project", i, "active")
      /\ \A i \in 1 .. q.items :
           Has(c, "message", i, "synchronized") => Has(c, "thread", i, "active") /\ Some(c, "account")
    BY DEF ReportsAreTrue
<1> QED BY UploadTrue, SearchTrue, GenerateTrue, AggregateTrue, CrawlTrue, PlanTrue, DeliveredTrue,
           MessagesTrue, RestoreTrue

\* What a record reports is there, for any calls, any number of items and any retries: a completed
\* upload has its document and text, a search its results, a plan its steps, an aggregate its
\* points, a restored project all that came with it, a delivery its notice and its mail, a
\* message its thread.
THEOREM ReportsHold == ApiSpec => []ReportsAreTrue
<1>1. ApiAssumption /\ ApiInv => ReportsAreTrue
      BY ReportsFollow
<1> QED BY <1>1, ApiAssumption, ApiHolds, PTL
=============================================================================
