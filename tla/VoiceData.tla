----------------------------- MODULE VoiceData -----------------------------
(***************************************************************************)
(* What Echo keeps of a user's voice: transcripts and the memories made    *)
(* from them, audio files and the rows that name them, and the speaker's   *)
(* representation.  Turns of the voice sessions write them while the user  *)
(* decides on memories, clears the data or changes the settings, and while *)
(* tasks remove expired audio.  The states of a session are VoiceSession's *)
(* subject; here a session exists or not.                                  *)
(***************************************************************************)
EXTENDS Naturals, FiniteSets, Sequences

CONSTANTS
  VoiceSessions,    \* sessions of the account
  Turns,            \* utterances, and the spoken answers to them
  Remembered,       \* contents a turn may propose as a memory
  Profiles,         \* settings of the voice profile the user switches between
  Lengths,          \* numbers of features of a speaker's representation
  MinSamples,       \* VOICE_SPEAKER_MIN_SAMPLES
  MaxEnrolled,      \* samples (bound)
  MaxSettings,      \* changes of the settings (bound)
  MaxVoiceCrashes,  \* deaths of a process (bound)
  Nil

\* The switches of a profile are Boolean columns.
ASSUME VoiceDataAssumption ==
  /\ MinSamples \in Nat \ {0} /\ MaxEnrolled \in Nat /\ MaxSettings \in Nat /\ MaxVoiceCrashes \in Nat
  /\ \A p \in Profiles : p.save \in BOOLEAN /\ p.approval \in BOOLEAN

Clips == Turns \X {"input", "output"}

VARIABLES
  voice,       \* sessions: "new", "open" or "deleted"
  profile,     \* the default voice profile
  transcript,  \* transcripts by turn: [status, memory, fact], or Nil
  turn,        \* requests that serve a turn: [pc, session, seen, fact]
  audio,       \* audio by clip: [file, row]; the row says when it may go
  writing,     \* how far a clip is stored: [pc, keep]
  cleaning,    \* clips whose file the clean-up deleted and whose row it did not yet
  stored,      \* memories made from transcripts: [fact, source]
  speaker,     \* the speaker profile: [samples, length, enrolled, verified]
  aged,        \* transcripts older than the retention period
  decided,     \* decisions of the user that were accepted, by turn
  cleared,     \* turns whose transcripts "delete stored voice data" removed
  spent        \* [settings, crashes]: what the bounds allow was used

vdvars == <<voice, profile, transcript, turn, audio, writing, cleaning, stored, speaker, aged,
            decided, cleared, spent>>

Live == {s \in VoiceSessions : voice[s] = "open"}

NoAudio  == [file |-> FALSE, row |-> "none"]
NoSpeaker == [samples |-> <<>>, length |-> 0, enrolled |-> FALSE, verified |-> FALSE]

VoiceDataInit ==
  /\ voice = [s \in VoiceSessions |-> "new"]
  /\ profile \in Profiles
  /\ transcript = [t \in Turns |-> Nil]
  /\ turn = [t \in Turns |-> [pc |-> "idle", session |-> Nil, seen |-> profile, fact |-> Nil]]
  /\ audio = [c \in Clips |-> NoAudio]
  /\ writing = [c \in Clips |-> [pc |-> "idle", keep |-> FALSE]]
  /\ cleaning = {}
  /\ stored = {}
  /\ speaker = NoSpeaker
  /\ aged = {}
  /\ decided = [t \in Turns |-> {}]
  /\ cleared = {}
  /\ spent = [settings |-> 0, crashes |-> 0]

To(t, pc) == turn' = [turn EXCEPT ![t].pc = pc]

-----------------------------------------------------------------------------
(* Audio *)

Step(c, pc) == writing' = [writing EXCEPT ![c].pc = pc]

\* transcribe_upload and synthesize: the session is read, and the profile with it.  What was
\* heard is kept; speech expires in an hour unless the profile keeps audio.
Persisting(c, s) ==
  /\ writing[c].pc = "idle"
  /\ s \in Live
  /\ writing' = [writing EXCEPT ![c] = [pc |-> "file", keep |-> c[2] = "input" \/ profile.save]]

\* persist: the file first ...
PersistFile(c) ==
  /\ writing[c].pc = "file"
  /\ audio' = [audio EXCEPT ![c].file = TRUE]
  /\ Step(c, "row")
  /\ UNCHANGED <<voice, profile, transcript, turn, cleaning, stored, speaker, aged, decided, cleared, spent>>

\* ... then its row, which names a session: without one the insertion fails, the file stays.
PersistRow(c) ==
  LET named == turn[c[1]].session \in Live
  IN  /\ writing[c].pc = "row"
      /\ Step(c, "done")
      /\ audio' = IF ~named THEN audio
                  ELSE [audio EXCEPT ![c].row = IF writing[c].keep THEN "kept" ELSE "fresh"]
      /\ turn' = IF named \/ c[2] = "output" THEN turn ELSE [turn EXCEPT ![c[1]].pc = "failed"]
      /\ UNCHANGED <<voice, profile, transcript, cleaning, stored, speaker, aged, decided, cleared, spent>>

\* An hour passes.
Expires(c) ==
  /\ audio[c].row = "fresh"
  /\ audio' = [audio EXCEPT ![c].row = "expired"]
  /\ UNCHANGED <<voice, profile, transcript, turn, writing, cleaning, stored, speaker, aged, decided, cleared, spent>>

\* Fault: the clean-up takes every asset that has an expiry.
CleanFileEarly(c) ==
  /\ audio[c].row \in {"fresh", "expired"} /\ c \notin cleaning
  /\ audio' = [audio EXCEPT ![c].file = FALSE]
  /\ cleaning' = cleaning \cup {c}
  /\ UNCHANGED <<voice, profile, transcript, turn, writing, stored, speaker, aged, decided, cleared, spent>>

\* cleanup_expired_audio_assets, for one asset: its file, whether it is still there or not ...
CleanFile(c) ==
  /\ audio[c].row = "expired" /\ c \notin cleaning
  /\ audio' = [audio EXCEPT ![c].file = FALSE]
  /\ cleaning' = cleaning \cup {c}
  /\ UNCHANGED <<voice, profile, transcript, turn, writing, stored, speaker, aged, decided, cleared, spent>>

\* ... then its row.
CleanRow(c) ==
  /\ c \in cleaning
  /\ cleaning' = cleaning \ {c}
  /\ audio' = [audio EXCEPT ![c].row = "none"]
  /\ UNCHANGED <<voice, profile, transcript, turn, writing, stored, speaker, aged, decided, cleared, spent>>

-----------------------------------------------------------------------------
(* The speaker *)

\* enroll: one transaction.  A sample that is too noisy changes nothing; samples of
\* another length than the new one do not count.
Usable(samples, n) == Cardinality({i \in DOMAIN samples : samples[i] = n})

Enroll(n) ==
  /\ Len(speaker.samples) < MaxEnrolled
  /\ LET samples == Append(speaker.samples, n)
     IN  speaker' = [speaker EXCEPT !.samples = samples, !.length = n,
                       !.enrolled = Usable(samples, n) >= (IF MinSamples > 2 THEN MinSamples ELSE 2)]
  /\ UNCHANGED <<voice, profile, transcript, turn, audio, writing, cleaning, stored, aged, decided, cleared, spent>>

Forgotten == NoSpeaker

ClearSpeaker ==
  /\ speaker' = Forgotten
  /\ UNCHANGED <<voice, profile, transcript, turn, audio, writing, cleaning, stored, aged, decided, cleared, spent>>

\* Vectors of different lengths have score 0, whatever was heard; no vector is as bad.
Matches(n, near) == n = speaker.length /\ near

Decision(n, near) ==
  IF ~profile.identify THEN "disabled"
  ELSE IF ~speaker.enrolled THEN "not_enrolled"
  ELSE IF Matches(n, near) THEN "recognized" ELSE "unrecognized"

-----------------------------------------------------------------------------
(* Turns *)

OpenSession(s) ==
  /\ voice[s] = "new" /\ Live = {}
  /\ voice' = [voice EXCEPT ![s] = "open"]
  /\ UNCHANGED <<profile, transcript, turn, audio, writing, cleaning, stored, speaker, aged, decided, cleared, spent>>

\* A turn begins: its session is read, with its profile; audio is kept if that profile says
\* so, before anything is known of what was said.
Listen(t, s, uploaded) ==
  /\ turn[t].pc = "idle"
  /\ s \in Live
  /\ turn' = [turn EXCEPT ![t] = [pc |-> "heard", session |-> s, seen |-> profile, fact |-> Nil]]
  /\ IF uploaded /\ profile.save THEN Persisting(<<t, "input">>, s) ELSE writing' = writing
  /\ UNCHANGED <<voice, profile, transcript, audio, cleaning, stored, speaker, aged, decided, cleared, spent>>

\* The speech provider, or the speaker model, fails.
NotTranscribed(t) ==
  /\ turn[t].pc = "heard" /\ writing[<<t, "input">>].pc \in {"idle", "done"}
  /\ To(t, "failed")
  /\ UNCHANGED <<voice, profile, transcript, audio, writing, cleaning, stored, speaker, aged, decided, cleared, spent>>

\* A transcript that waits for the agents.
Begun == [status |-> "processing", memory |-> "not_candidate", fact |-> Nil]

\* The speaker is verified, and the transcript is stored, unless the speaker is refused or
\* the session has been deleted since.
Transcribe(t, n, near, typed) ==
  LET decision == Decision(n, near)
      refused  == ~typed /\ turn[t].seen.identify /\ turn[t].seen.reject /\ decision # "recognized"
  IN  /\ turn[t].pc = "heard" /\ writing[<<t, "input">>].pc \in {"idle", "done"}
      /\ typed => writing[<<t, "input">>].pc = "idle"
      /\ speaker' = [speaker EXCEPT !.verified = @ \/ (~typed /\ decision = "recognized")]
      /\ IF refused \/ turn[t].session \notin Live
         THEN To(t, IF refused THEN "refused" ELSE "failed") /\ transcript' = transcript
         ELSE /\ To(t, "asked")
              /\ transcript' = [transcript EXCEPT ![t] = Begun]
      /\ UNCHANGED <<voice, profile, audio, writing, cleaning, stored, aged, decided, cleared, spent>>

\* Fault: the transcript keeps no hold on its session.
ResavedAnyway(t, row) ==
  /\ transcript' = [transcript EXCEPT ![t] = row]
  /\ turn' = [turn EXCEPT ![t].pc = "answered", ![t].fact = row.fact]

\* The agents answered; the whole transcript is saved.  A row that was deleted meanwhile is
\* inserted again, unless the session it belongs to is gone as well.
Resaved(t, row) ==
  LET named == turn[t].session \in Live
  IN  /\ transcript' = IF named THEN [transcript EXCEPT ![t] = row] ELSE transcript
      /\ turn' = [turn EXCEPT ![t].pc = IF named THEN "answered" ELSE "failed", ![t].fact = row.fact]

AgentReplied(t, fact) ==
  /\ turn[t].pc = "asked"
  /\ Resaved(t, [status |-> IF fact = Nil THEN "completed" ELSE "waiting",
                 memory |-> IF fact = Nil THEN "not_candidate" ELSE "pending", fact |-> fact])
  /\ aged' = IF transcript[t] = Nil THEN aged \ {t} ELSE aged
  /\ UNCHANGED <<voice, profile, audio, writing, cleaning, stored, speaker, decided, cleared, spent>>

\* The agents failed: only some columns are saved, which needs the row.
AgentBroke(t) ==
  /\ turn[t].pc = "asked"
  /\ To(t, "failed")
  /\ transcript' = IF transcript[t] = Nil THEN transcript ELSE [transcript EXCEPT ![t].status = "failed"]
  /\ UNCHANGED <<voice, profile, audio, writing, cleaning, stored, speaker, aged, decided, cleared, spent>>

\* remember() keeps one active memory of a content: the first.
Keep(fact, t) ==
  IF \E m \in stored : m.fact = fact THEN stored ELSE stored \cup {[fact |-> fact, source |-> t]}

\* After the transcript is saved: the memory, when the profile the turn began with needs no
\* approval, and then its status.  The turn has the row in memory and does not read it again.
RememberUnasked(t) ==
  /\ turn[t].pc = "answered" /\ turn[t].fact # Nil /\ ~turn[t].seen.approval
  /\ stored' = Keep(turn[t].fact, t)
  /\ To(t, "remembered")
  /\ UNCHANGED <<voice, profile, transcript, audio, writing, cleaning, speaker, aged, decided, cleared, spent>>

MarkRemembered(t) ==
  /\ turn[t].pc = "remembered"
  /\ transcript' = IF transcript[t] = Nil THEN transcript ELSE [transcript EXCEPT ![t].memory = "approved"]
  /\ To(t, IF transcript[t] = Nil THEN "failed" ELSE "done")
  /\ UNCHANGED <<voice, profile, audio, writing, cleaning, stored, speaker, aged, decided, cleared, spent>>

AnswerTurn(t) ==
  /\ turn[t].pc = "answered"
  /\ turn[t].fact = Nil \/ turn[t].seen.approval
  /\ To(t, "done")
  /\ UNCHANGED <<voice, profile, transcript, audio, writing, cleaning, stored, speaker, aged, decided, cleared, spent>>

\* The answer is spoken by a server's voice.
SpeakAnswer(t) ==
  /\ turn[t].pc = "done"
  /\ Persisting(<<t, "output">>, turn[t].session)
  /\ UNCHANGED <<voice, profile, transcript, turn, audio, cleaning, stored, speaker, aged, decided, cleared, spent>>

-----------------------------------------------------------------------------
(* What the user does *)

\* Fault: any candidate may be decided on again.
DecidableAgain(row, approve) == row.memory # "not_candidate"

\* memory_decision: one transaction, with the row locked.
Decidable(row, approve) == row.memory = "pending" \/ (row.memory = "approved" /\ approve)

Decide(t, approve) ==
  /\ transcript[t] # Nil /\ Decidable(transcript[t], approve)
  /\ transcript' = [transcript EXCEPT ![t].memory = IF approve THEN "approved" ELSE "rejected"]
  /\ stored' = IF approve THEN Keep(transcript[t].fact, t) ELSE stored
  /\ decided' = [decided EXCEPT ![t] = @ \cup {approve}]
  /\ UNCHANGED <<voice, profile, turn, audio, writing, cleaning, speaker, aged, cleared, spent>>

\* MemoryAgentService.delete, from the memory page.
DeleteMemory(m) ==
  /\ m \in stored
  /\ stored' = stored \ {m}
  /\ UNCHANGED <<voice, profile, transcript, turn, audio, writing, cleaning, speaker, aged, decided, cleared, spent>>

\* clear_voice_data: rows of every kind, and the sessions, in one transaction.
ClearVoiceData ==
  /\ Live # {}
  /\ voice' = [s \in VoiceSessions |-> IF s \in Live THEN "deleted" ELSE voice[s]]
  /\ cleared' = cleared \cup {t \in Turns : transcript[t] # Nil}
  /\ transcript' = [t \in Turns |-> Nil]
  /\ audio' = [c \in Clips |-> [audio[c] EXCEPT !.row = "none"]]
  /\ UNCHANGED <<profile, turn, writing, cleaning, stored, speaker, aged, decided, spent>>

\* enforce_retention: with no days, every transcript.
EnforceRetention ==
  /\ \E t \in Turns : transcript[t] # Nil
  /\ transcript' = [t \in Turns |-> IF profile.days = 0 \/ t \in aged THEN Nil ELSE transcript[t]]
  /\ UNCHANGED <<voice, profile, turn, audio, writing, cleaning, stored, speaker, aged, decided, cleared, spent>>

\* A transcript passes the age the retention allows.
Ages(t) ==
  /\ transcript[t] # Nil /\ t \notin aged
  /\ aged' = aged \cup {t}
  /\ UNCHANGED <<voice, profile, transcript, turn, audio, writing, cleaning, stored, speaker, decided, cleared, spent>>

UpdateProfile(p) ==
  /\ p # profile /\ spent.settings < MaxSettings
  /\ profile' = p
  /\ spent' = [spent EXCEPT !.settings = @ + 1]
  /\ UNCHANGED <<voice, transcript, turn, audio, writing, cleaning, stored, speaker, aged, decided, cleared>>

\* A process dies: the request it served ...
TurnDies(t) ==
  /\ turn[t].pc \notin {"idle", "dead"} /\ spent.crashes < MaxVoiceCrashes
  /\ spent' = [spent EXCEPT !.crashes = @ + 1]
  /\ To(t, "dead")
  /\ writing' = [c \in Clips |-> IF c[1] = t THEN [writing[c] EXCEPT !.pc = "dead"] ELSE writing[c]]
  /\ UNCHANGED <<voice, profile, transcript, audio, cleaning, stored, speaker, aged, decided, cleared>>

\* ... or the task that cleaned up.
CleanerDies ==
  /\ cleaning # {} /\ spent.crashes < MaxVoiceCrashes
  /\ spent' = [spent EXCEPT !.crashes = @ + 1]
  /\ cleaning' = {}
  /\ UNCHANGED <<voice, profile, transcript, turn, audio, writing, stored, speaker, aged, decided, cleared>>

VoiceDataNext ==
  \/ \E c \in Clips : PersistFile(c) \/ PersistRow(c) \/ Expires(c) \/ CleanFile(c) \/ CleanRow(c)
  \/ \E n \in Lengths : Enroll(n)
  \/ ClearSpeaker \/ ClearVoiceData \/ EnforceRetention
  \/ \E t \in Turns :
       \/ \E s \in VoiceSessions, uploaded \in BOOLEAN : Listen(t, s, uploaded)
       \/ \E n \in Lengths, near, typed \in BOOLEAN : Transcribe(t, n, near, typed)
       \/ \E fact \in Remembered \cup {Nil} : AgentReplied(t, fact)
       \/ RememberUnasked(t) \/ NotTranscribed(t)
       \/ AgentBroke(t) \/ MarkRemembered(t) \/ AnswerTurn(t) \/ SpeakAnswer(t)
       \/ \E approve \in BOOLEAN : Decide(t, approve)
       \/ Ages(t) \/ TurnDies(t)
  \/ CleanerDies
  \/ \E s \in VoiceSessions : OpenSession(s)
  \/ \E m \in stored : DeleteMemory(m)
  \/ \E p \in Profiles : UpdateProfile(p)

VoiceDataSpec == VoiceDataInit /\ [][VoiceDataNext]_vdvars

-----------------------------------------------------------------------------
(* Properties *)

\* A memory made from what was said, under a profile that asks for approval, was approved by
\* the user and never rejected, however turns, decisions, deletions, changes of the settings
\* and equal contents overlap (VOICE.md, "Memory policy").
MemoryIsConsented ==
  \A m \in stored : turn[m.source].seen.approval => decided[m.source] = {TRUE}

\* Transcripts deleted with the stored voice data stay deleted, also when the turn that
\* wrote them was still waiting for the agents and saves its transcript afterwards.
ClearedStaysCleared == \A t \in cleared : transcript[t] = Nil

\* Audio a user may still play has its file: storing, expiry, clean-ups and their deaths
\* never leave a row that has not expired without one.
PlayableAudioExists == \A c \in Clips : audio[c].row \in {"kept", "fresh"} => audio[c].file
=============================================================================
