--------------------------- MODULE ConsoleProofs ---------------------------
(***************************************************************************)
(* Proofs about the web console, for any number of handlers that wait at    *)
(* the same time, and any files, settings and number of chats.              *)
(***************************************************************************)
EXTENDS Console, TLAPS

-----------------------------------------------------------------------------
(* Handlers.                                                               *)

Args == Files \cup Settings \cup Nat \cup {NULL}

\* The part of TypeOK that is about the handlers.
CallsOK ==
    /\ calls \in [Calls -> [kind : Kinds, arg : Args, polls : 0..(MaxPolls - 1)]]
    /\ \A i \in Calls : Waits(i, "test") => calls[i].arg \in Settings

\* A handler that starts takes the place of none.
LEMMA Started ==
    ASSUME CallsOK, NEW kind \in Kinds, NEW arg \in Args, kind = "test" => arg \in Settings,
           Start(kind, arg)
    PROVE  /\ CallsOK'
           /\ Slot \in Calls /\ Waits(Slot, "ended") /\ calls'[Slot].kind = kind
           /\ \A i \in Calls \ {Slot} : calls'[i] = calls[i]
  <1>1. Slot \in Calls /\ calls[Slot] = Ended
    BY DEF Start, Slot, Free
  <1>2. calls' = [calls EXCEPT ![Slot] = [kind |-> kind, arg |-> arg, polls |-> 0]]
    BY DEF Start
  <1>3. 0 \in 0..(MaxPolls - 1)
    BY ConsoleAssumption
  <1> QED BY <1>1, <1>2, <1>3 DEF CallsOK, Waits, Ended

\* A handler that goes on to its next await, or ends, leaves the others alone.
LEMMA Continued ==
    ASSUME CallsOK, NEW i \in Calls, NEW kind \in Kinds \ {"test"}, NEW arg \in Args,
           Continue(i, kind, arg)
    PROVE  /\ CallsOK' /\ Waits(i, kind)'
           /\ \A j \in Calls \ {i} : calls'[j] = calls[j]
  <1>1. 0 \in 0..(MaxPolls - 1)
    BY ConsoleAssumption
  <1> QED BY <1>1 DEF CallsOK, Continue, Waits

LEMMA HasEnded ==
    ASSUME CallsOK, NEW i \in Calls, End(i)
    PROVE  /\ CallsOK' /\ Waits(i, "ended")'
           /\ \A j \in Calls \ {i} : calls'[j] = calls[j]
  <1>1. 0 \in 0..(MaxPolls - 1)
    BY ConsoleAssumption
  <1>2. NULL \in Args /\ "ended" \in Kinds
    BY DEF Args, Kinds
  <1> QED BY <1>1, <1>2 DEF CallsOK, End, Ended, Waits

-----------------------------------------------------------------------------
(* The invariant.                                                          *)

\* At most one handler tries settings out: the button is disabled meanwhile.
OneTest == \A i, j \in Calls : Waits(i, "test") /\ Waits(j, "test") => i = j

Safe == OneTest /\ AnswersStayInChat /\ LlmWasChecked /\ StoredIsInUse

\* The handlers that wait for an answer or for a test are the same after the step.
SameChatsAndTests ==
    \A i \in Calls : /\ Waits(i, "chat")' <=> Waits(i, "chat")
                     /\ Waits(i, "test")' <=> Waits(i, "test")

\* What the other handlers do cannot disturb the chat and the settings.
LEMMA Undisturbed ==
    ASSUME TypeOK, Safe, UNCHANGED <<chat, ai>>, SameChatsAndTests
    PROVE  Safe'
  <1>1. OneTest'
    BY DEF Safe, OneTest, SameChatsAndTests
  <1>2. AnswersStayInChat'
    <2> SUFFICES ASSUME NEW m \in messages'
                 PROVE  m.session = session' /\ (m.call # 0 => Waits(m.call, "chat")')
      BY DEF AnswersStayInChat
    <2>1. m \in messages /\ session' = session
      BY DEF chat
    <2>2. m.call \in 0..MaxCalls
      BY <2>1 DEF TypeOK
    <2>3. m.call # 0 => m.call \in Calls
      BY <2>2, ConsoleAssumption DEF Calls
    <2> QED BY <2>1, <2>3 DEF Safe, AnswersStayInChat, SameChatsAndTests
  <1>3. LlmWasChecked'
    BY DEF Safe, LlmWasChecked, SameChatsAndTests, ai
  <1>4. StoredIsInUse'
    BY DEF Safe, StoredIsInUse, Loaded, ai
  <1> QED BY <1>1, <1>2, <1>3, <1>4 DEF Safe

\* A step of one handler that waits for neither, before and after.
LEMMA OtherHandler ==
    ASSUME NEW i \in Calls,
           calls[i].kind \notin {"chat", "test"}, calls'[i].kind \notin {"chat", "test"},
           \A j \in Calls \ {i} : calls'[j] = calls[j]
    PROVE  SameChatsAndTests
  BY DEF SameChatsAndTests, Waits

LEMMA TypeOKCalls == TypeOK => CallsOK
  BY DEF TypeOK, CallsOK, Args

-----------------------------------------------------------------------------
(* One step.                                                               *)

\* What the user does.
LEMMA ActStep ==
    ASSUME TypeOK, Safe, Act
    PROVE  TypeOK' /\ Safe'
  <1>0. CallsOK
    BY TypeOKCalls
  <1>n. NULL \in Args /\ {"me", "list", "edit", "read", "store", "queue", "chat", "test"} \subseteq Kinds
    BY DEF Args, Kinds
  <1>1. ASSUME (\E k \in Keys : Connect(k)) \/ Refresh \/ Edit PROVE TypeOK' /\ Safe'
    <2>1. PICK kind \in {"me", "list", "edit"} : Start(kind, NULL)
      BY <1>1 DEF Connect, Refresh, Edit
    <2>2. /\ CallsOK' /\ Slot \in Calls /\ Waits(Slot, "ended") /\ calls'[Slot].kind = kind
          /\ \A i \in Calls \ {Slot} : calls'[i] = calls[i]
      BY <1>0, <1>n, <2>1, Started
    <2>3. SameChatsAndTests
      BY <2>2, OtherHandler DEF Waits
    <2>4. UNCHANGED <<chat, ai, upload, connected>> /\ key' \in Keys \cup {NULL}
      BY <1>1 DEF Connect, Refresh, Edit, connection, TypeOK
    <2>5. TypeOK'
      BY <2>2, <2>4 DEF TypeOK, CallsOK, Args, chat, ai, upload
    <2> QED BY <2>3, <2>4, <2>5, Undisturbed
  <1>2. ASSUME NEW f \in Files, ChooseFile(f) PROVE TypeOK' /\ Safe'
    <2>1. UNCHANGED <<chat, ai, calls>>
      BY <1>2 DEF ChooseFile
    <2>2. SameChatsAndTests
      BY <2>1 DEF SameChatsAndTests, Waits
    <2>3. TypeOK'
      BY <1>2 DEF ChooseFile, UpdateButtons, TypeOK, connection, chat, ai, Waits
    <2> QED BY <2>1, <2>2, <2>3, Undisturbed
  <1>3. ASSUME NEW on \in BOOLEAN, Paste(on) PROVE TypeOK' /\ Safe'
    <2>1. UNCHANGED <<chat, ai, calls>>
      BY <1>3 DEF Paste
    <2>2. SameChatsAndTests
      BY <2>1 DEF SameChatsAndTests, Waits
    <2>3. TypeOK'
      BY <1>3 DEF Paste, UpdateButtons, TypeOK, connection, chat, ai, Waits
    <2> QED BY <2>1, <2>2, <2>3, Undisturbed
  <1>4. ASSUME NEW b \in BOOLEAN, Upload(b) PROVE TypeOK' /\ Safe'
    <2>1. PICK kind \in {"read", "store", "queue"}, arg \in Args : Start(kind, arg)
      <3>1. file \in Args
        BY DEF TypeOK, Args
      <3> QED BY <1>4, <1>n, <3>1 DEF Upload
    <2>2. /\ CallsOK' /\ Slot \in Calls /\ Waits(Slot, "ended") /\ calls'[Slot].kind = kind
          /\ \A i \in Calls \ {Slot} : calls'[i] = calls[i]
      BY <1>0, <1>n, <2>1, Started
    <2>3. SameChatsAndTests
      BY <2>2, OtherHandler DEF Waits
    <2>4. UNCHANGED <<chat, ai, connection, file, text>> /\ uploadOn' \in BOOLEAN
      BY <1>4 DEF Upload, TypeOK
    <2>5. TypeOK'
      BY <2>2, <2>4 DEF TypeOK, CallsOK, Args, chat, ai, connection
    <2> QED BY <2>3, <2>4, <2>5, Undisturbed
  <1>5. ASSUME Ask PROVE TypeOK' /\ Safe'
    <2>1. Start("chat", session) /\ session \in Args
      BY <1>5 DEF Ask, TypeOK, Args
    <2>2. /\ CallsOK' /\ Slot \in Calls /\ Waits(Slot, "ended") /\ calls'[Slot].kind = "chat"
          /\ \A i \in Calls \ {Slot} : calls'[i] = calls[i]
      BY <1>0, <1>n, <2>1, Started
    <2>3. /\ messages' = messages \cup {[session |-> session, call |-> Slot]}
          /\ UNCHANGED <<connection, file, text, session, ai>>
          /\ uploadOn' \in BOOLEAN
      BY <1>5 DEF Ask, UpdateButtons
    <2>4. TypeOK'
      <3>1. Slot \in 0..MaxCalls
        BY <2>2, ConsoleAssumption DEF Calls
      <3> QED BY <2>2, <2>3, <3>1 DEF TypeOK, CallsOK, Args, ai, connection
    <2>5. \A i \in Calls : Waits(i, "test")' <=> Waits(i, "test")
      BY <2>2 DEF Waits
    <2>6. OneTest' /\ LlmWasChecked' /\ StoredIsInUse'
      BY <2>3, <2>5 DEF Safe, OneTest, LlmWasChecked, StoredIsInUse, Loaded, ai
    <2>7. AnswersStayInChat'
      <3> SUFFICES ASSUME NEW m \in messages'
                   PROVE  m.session = session' /\ (m.call # 0 => calls'[m.call].kind = "chat")
        BY DEF AnswersStayInChat, Waits
      <3>1. CASE m = [session |-> session, call |-> Slot]
        BY <2>2, <2>3, <3>1
      <3>2. CASE m \in messages
        <4>1. m.call \in 0..MaxCalls
          BY <3>2 DEF TypeOK
        <4>2. m.call # 0 => m.call \in Calls
          BY <4>1, ConsoleAssumption DEF Calls
        <4> QED BY <2>2, <2>3, <3>2, <4>2 DEF Safe, AnswersStayInChat, Waits
      <3> QED BY <2>3, <3>1, <3>2
    <2> QED BY <2>4, <2>6, <2>7 DEF Safe
  <1>6. ASSUME NewChat PROVE TypeOK' /\ Safe'
    <2>1. TypeOK'
      BY <1>6 DEF NewChat, TypeOK, connection, ai, upload, Waits
    <2>2. AnswersStayInChat'
      BY <1>6 DEF NewChat, AnswersStayInChat
    <2>3. OneTest' /\ LlmWasChecked' /\ StoredIsInUse'
      BY <1>6 DEF NewChat, Safe, OneTest, LlmWasChecked, StoredIsInUse, Loaded, ai, Waits
    <2> QED BY <2>1, <2>2, <2>3 DEF Safe
  <1>7. ASSUME SaveBuiltin PROVE TypeOK' /\ Safe'
    <2>1. TypeOK'
      BY <1>7 DEF SaveBuiltin, SaveLlm, TypeOK, connection, chat, upload, Waits
    <2>2. AnswersStayInChat'
      BY <1>7 DEF SaveBuiltin, Safe, AnswersStayInChat, chat, Waits
    <2>3. OneTest' /\ LlmWasChecked' /\ StoredIsInUse'
      BY <1>7 DEF SaveBuiltin, SaveLlm, Safe, OneTest, LlmWasChecked, StoredIsInUse, Loaded, Waits
    <2> QED BY <2>1, <2>2, <2>3 DEF Safe
  <1>8. ASSUME NEW c \in Settings, SaveOwn(c) PROVE TypeOK' /\ Safe'
    <2>1. Start("test", c) /\ c \in Args /\ ~saving /\ saving' = TRUE
      BY <1>8 DEF SaveOwn, Args
    <2>2. /\ CallsOK' /\ Slot \in Calls /\ Waits(Slot, "ended") /\ calls'[Slot].kind = "test"
          /\ \A i \in Calls \ {Slot} : calls'[i] = calls[i]
      BY <1>0, <1>n, <2>1, Started
    <2>3. UNCHANGED <<connection, chat, llm, tab, disk, checked, upload>>
      BY <1>8 DEF SaveOwn
    <2>4. TypeOK'
      BY <2>1, <2>2, <2>3 DEF TypeOK, CallsOK, Args, connection, chat, upload
    <2>5. \A i \in Calls : Waits(i, "test")' <=> i = Slot
      BY <2>1, <2>2 DEF Safe, LlmWasChecked, Waits
    <2>6. OneTest' /\ LlmWasChecked' /\ StoredIsInUse'
      <3>1. OneTest'
        BY <2>5 DEF OneTest
      <3>2. LlmWasChecked'
        BY <2>1, <2>2, <2>3, <2>5 DEF Safe, LlmWasChecked
      <3>3. StoredIsInUse'
        BY <2>3 DEF Safe, StoredIsInUse, Loaded
      <3> QED BY <3>1, <3>2, <3>3
    <2>7. AnswersStayInChat'
      <3> SUFFICES ASSUME NEW m \in messages
                   PROVE  m.session = session /\ (m.call # 0 => calls'[m.call].kind = "chat")
        BY <2>3 DEF AnswersStayInChat, Waits, chat
      <3>1. m.call \in 0..MaxCalls
        BY DEF TypeOK
      <3>2. m.call # 0 => m.call \in Calls
        BY <3>1, ConsoleAssumption DEF Calls
      <3> QED BY <2>2, <3>2 DEF Safe, AnswersStayInChat, Waits
    <2> QED BY <2>4, <2>6, <2>7 DEF Safe
  <1>9. ASSUME NEW t \in BOOLEAN, Load(t) PROVE TypeOK' /\ Safe'
    <2>1. \A i \in Calls : calls'[i].kind \in {"me", "ended"}
      BY <1>9 DEF Load, Ended
    <2>2. CallsOK'
      <3>1. 0 \in 0..(MaxPolls - 1) /\ "ended" \in Kinds
        BY ConsoleAssumption DEF Kinds
      <3> QED BY <1>9, <1>n, <2>1, <3>1 DEF Load, CallsOK, Ended, Waits
    <2>3. TypeOK'
      <3>1. /\ key' \in Keys \cup {NULL} /\ {llm', tab', disk'} \subseteq Settings \cup {NULL}
            /\ session' \in Nat
        BY <1>9 DEF Load, TypeOK, Loaded
      <3>2. /\ connected' = FALSE /\ saving' = FALSE /\ file' = NULL /\ text' = FALSE
            /\ uploadOn' = FALSE /\ messages' = {}
        BY <1>9 DEF Load, UpdateButtons
      <3> QED BY <2>2, <3>1, <3>2 DEF TypeOK, CallsOK, Args
    <2>4. AnswersStayInChat' /\ OneTest'
      BY <1>9, <2>1 DEF Load, AnswersStayInChat, OneTest, Waits
    <2>5. LlmWasChecked'
      <3>1. \A i \in Calls : ~Waits(i, "test")'
        BY <2>1 DEF Waits
      <3> QED BY <1>9, <3>1 DEF Load, Safe, LlmWasChecked, Loaded
    <2>6. StoredIsInUse'
      BY <1>9 DEF Load, Safe, StoredIsInUse, Loaded
    <2> QED BY <2>3, <2>4, <2>5, <2>6 DEF Safe
  <1> QED BY <1>1, <1>2, <1>3, <1>4, <1>5, <1>6, <1>7, <1>8, <1>9 DEF Act

\* Finish ends the handler, or leaves it waiting for the list.
LEMMA Finished ==
    ASSUME TypeOK, Safe, NEW i \in Calls, calls[i].kind \notin {"chat", "test"}, Finish(i)
    PROVE  TypeOK' /\ Safe'
  <1>1. CallsOK /\ NULL \in Args /\ "list" \in Kinds \ {"test"}
    BY TypeOKCalls DEF Args, Kinds
  <1>2. /\ CallsOK' /\ calls'[i].kind \in {"list", "ended"}
        /\ \A j \in Calls \ {i} : calls'[j] = calls[j]
    <2>1. CASE Continue(i, "list", NULL)
      BY <1>1, <2>1, Continued DEF Waits
    <2>2. CASE End(i)
      BY <1>1, <2>2, HasEnded DEF Waits
    <2> QED BY <2>1, <2>2 DEF Finish
  <1>3. /\ UNCHANGED <<connection, chat, ai>> /\ file' = NULL /\ text' = FALSE
        /\ uploadOn' \in BOOLEAN
    BY DEF Finish, UpdateButtons
  <1>4. TypeOK'
    BY <1>2, <1>3 DEF TypeOK, CallsOK, Args, connection, chat, ai
  <1>5. SameChatsAndTests
    BY <1>2, OtherHandler
  <1> QED BY <1>3, <1>4, <1>5, Undisturbed

\* A handler goes on.
LEMMA ResumeStep ==
    ASSUME TypeOK, Safe, NEW i \in Calls, Resume(i)
    PROVE  TypeOK' /\ Safe'
  <1>0. CallsOK
    BY TypeOKCalls
  <1>n. NULL \in Args /\ {"documents", "list", "store", "queue", "poll"} \subseteq Kinds \ {"test"}
    BY DEF Args, Kinds
  \* Neither a chat nor a test, and not the last step of an upload.
  <1>1. ASSUME /\ \/ Identified(i) \/ NotIdentified(i) \/ Connected(i) \/ Listed(i)
                  \/ \E ok \in BOOLEAN : Edited(i, ok)
                  \/ \E b \in BOOLEAN : FileRead(i, b)
                  \/ FileUnreadable(i) \/ UploadFailed(i) \/ Queued(i)
        PROVE  TypeOK' /\ Safe'
    <2>1. calls[i].kind \notin {"chat", "test"}
      BY <1>1 DEF Identified, NotIdentified, Connected, Listed, Edited, FileRead,
                  FileUnreadable, UploadFailed, Queued, Waits
    <2>2. \/ End(i)
          \/ \E kind \in {"documents", "list", "store", "queue", "poll"} : Continue(i, kind, NULL)
      BY <1>1 DEF Identified, NotIdentified, Connected, Listed, Edited, FileRead,
                  FileUnreadable, UploadFailed, Queued
    <2>3. /\ CallsOK' /\ calls'[i].kind \notin {"chat", "test"}
          /\ \A j \in Calls \ {i} : calls'[j] = calls[j]
      <3>1. CASE End(i)
        BY <1>0, <3>1, HasEnded DEF Waits
      <3>2. ASSUME NEW kind \in {"documents", "list", "store", "queue", "poll"},
                   Continue(i, kind, NULL)
            PROVE  /\ CallsOK' /\ calls'[i].kind \notin {"chat", "test"}
                   /\ \A j \in Calls \ {i} : calls'[j] = calls[j]
        BY <1>0, <1>n, <3>2, Continued DEF Waits
      <3> QED BY <2>2, <3>1, <3>2
    <2>4. UNCHANGED <<key, chat, ai, file, text>>
      BY <1>1 DEF Identified, NotIdentified, Connected, Listed, Edited, FileRead,
                  FileUnreadable, UploadFailed, Queued, connection, upload
    <2>5. connected' \in BOOLEAN /\ uploadOn' \in BOOLEAN
      BY <1>1 DEF Identified, NotIdentified, Connected, Listed, Edited, FileRead,
                  FileUnreadable, UploadFailed, Queued, connection, upload, UpdateButtons, TypeOK
    <2>6. TypeOK'
      BY <2>3, <2>4, <2>5 DEF TypeOK, CallsOK, Args, chat, ai
    <2>7. SameChatsAndTests
      BY <2>1, <2>3, OtherHandler
    <2> QED BY <2>4, <2>6, <2>7, Undisturbed
  <1>2. ASSUME Stored(i) \/ Followed(i) PROVE TypeOK' /\ Safe'
    BY <1>2, Finished DEF Stored, Followed, Waits
  <1>3. ASSUME StillRunning(i) PROVE TypeOK' /\ Safe'
    <2>1. CASE Finish(i)
      BY <1>3, <2>1, Finished DEF StillRunning, Waits
    <2>2. CASE ~Finish(i)
      <3>1. /\ calls[i].kind = "poll" /\ calls[i].polls + 1 # MaxPolls
            /\ calls' = [calls EXCEPT ![i].polls = @ + 1]
            /\ UNCHANGED <<connection, chat, ai, upload>>
        BY <1>3, <2>2 DEF StillRunning, Waits
      <3>2. calls[i].polls + 1 \in 0..(MaxPolls - 1)
        BY <1>0, <3>1, ConsoleAssumption DEF CallsOK
      <3>3. /\ calls'[i] = [calls[i] EXCEPT !.polls = @ + 1]
            /\ \A j \in Calls \ {i} : calls'[j] = calls[j]
        BY <1>0, <3>1 DEF CallsOK
      <3>4. CallsOK'
        BY <1>0, <3>1, <3>2, <3>3 DEF CallsOK, Waits
      <3>5. TypeOK'
        BY <3>1, <3>4 DEF TypeOK, CallsOK, Args, connection, chat, ai, upload
      <3>6. calls'[i].kind = "poll"
        BY <1>0, <3>1, <3>3 DEF CallsOK
      <3>7. SameChatsAndTests
        BY <3>1, <3>3, <3>6, OtherHandler
      <3> QED BY <3>1, <3>5, <3>7, Undisturbed
    <2> QED BY <2>1, <2>2
  <1>4. ASSUME Answer(i) PROVE TypeOK' /\ Safe'
    <2>1. /\ calls[i].kind = "chat" /\ End(i)
          /\ messages' = {[m EXCEPT !.call = IF @ = i THEN 0 ELSE @] : m \in messages}
          /\ UNCHANGED <<connection, session, ai, upload>>
      BY <1>4 DEF Answer, Waits
    <2>2. /\ CallsOK' /\ calls'[i].kind = "ended"
          /\ \A j \in Calls \ {i} : calls'[j] = calls[j]
      BY <1>0, <2>1, HasEnded DEF Waits
    <2>3. ASSUME NEW n \in messages'
          PROVE  \E m \in messages : /\ n.session = m.session
                                     /\ n.call = IF m.call = i THEN 0 ELSE m.call
                                     /\ n \in [session : Nat, call : 0..MaxCalls]
      <3>1. PICK m \in messages : n = [m EXCEPT !.call = IF @ = i THEN 0 ELSE @]
        BY <2>1
      <3>2. m \in [session : Nat, call : 0..MaxCalls] /\ 0 \in 0..MaxCalls
        BY ConsoleAssumption DEF TypeOK
      <3> QED BY <3>1, <3>2
    <2>4. TypeOK'
      <3>1. messages' \subseteq [session : Nat, call : 0..MaxCalls]
        BY <2>3
      <3> QED BY <2>1, <2>2, <3>1 DEF TypeOK, CallsOK, Args, connection, ai, upload
    <2>5. AnswersStayInChat'
      <3> SUFFICES ASSUME NEW n \in messages'
                   PROVE  n.session = session' /\ (n.call # 0 => calls'[n.call].kind = "chat")
        BY DEF AnswersStayInChat, Waits
      <3>1. PICK m \in messages : n.session = m.session /\ n.call = IF m.call = i THEN 0 ELSE m.call
        BY <2>3
      <3>2. m.call \in 0..MaxCalls
        BY DEF TypeOK
      <3>3. m.call # 0 => m.call \in Calls
        BY <3>2, ConsoleAssumption DEF Calls
      <3> QED BY <2>1, <2>2, <3>1, <3>3 DEF Safe, AnswersStayInChat, Waits
    <2>6. \A j \in Calls : Waits(j, "test")' <=> Waits(j, "test")
      BY <2>1, <2>2 DEF Waits
    <2>7. OneTest' /\ LlmWasChecked' /\ StoredIsInUse'
      BY <2>1, <2>6 DEF Safe, OneTest, LlmWasChecked, StoredIsInUse, Loaded, ai
    <2> QED BY <2>4, <2>5, <2>7 DEF Safe
  \* The one test has ended.
  <1>5. ASSUME DoesNotWork(i) \/ \E b \in BOOLEAN : Works(i, b) PROVE TypeOK' /\ Safe'
    <2>1. /\ Waits(i, "test") /\ End(i) /\ saving' = FALSE
          /\ UNCHANGED <<connection, chat, upload>>
      BY <1>5 DEF DoesNotWork, Works
    <2>2. /\ CallsOK' /\ calls'[i].kind = "ended"
          /\ \A j \in Calls \ {i} : calls'[j] = calls[j]
      BY <1>0, <2>1, HasEnded DEF Waits
    <2>3. \A j \in Calls : ~Waits(j, "test")'
      BY <2>1, <2>2 DEF Safe, OneTest, Waits
    <2>4. /\ {llm', tab', disk'} \subseteq Settings \cup {NULL}
          /\ {llm', tab', disk'} \subseteq checked' \cup {NULL}
          /\ StoredIsInUse'
      <3>1. CASE DoesNotWork(i)
        BY <3>1 DEF DoesNotWork, TypeOK, Safe, LlmWasChecked, StoredIsInUse, Loaded
      <3>2. ASSUME NEW b \in BOOLEAN, Works(i, b)
            PROVE  /\ {llm', tab', disk'} \subseteq Settings \cup {NULL}
                   /\ {llm', tab', disk'} \subseteq checked' \cup {NULL}
                   /\ StoredIsInUse'
        <4>1. llm' \in Settings
          BY <1>0, <2>1, <3>2 DEF Works, CallsOK
        <4>2. /\ checked' = checked \cup {llm'}
              /\ disk' = (IF b THEN llm' ELSE NULL) /\ tab' = IF b THEN NULL ELSE llm'
          BY <3>2 DEF Works, SaveLlm
        <4>3. llm' # NULL
          BY <4>1, ConsoleAssumption
        <4> QED BY <4>1, <4>2, <4>3 DEF StoredIsInUse, Loaded
      <3> QED BY <1>5, <3>1, <3>2
    <2>5. TypeOK'
      BY <2>1, <2>2, <2>4 DEF TypeOK, CallsOK, Args, connection, chat, upload
    <2>6. OneTest' /\ LlmWasChecked'
      BY <2>1, <2>3, <2>4 DEF OneTest, LlmWasChecked
    <2>7. AnswersStayInChat'
      <3> SUFFICES ASSUME NEW m \in messages
                   PROVE  m.session = session /\ (m.call # 0 => calls'[m.call].kind = "chat")
        BY <2>1 DEF AnswersStayInChat, Waits, chat
      <3>1. m.call \in 0..MaxCalls
        BY DEF TypeOK
      <3>2. m.call # 0 => m.call \in Calls
        BY <3>1, ConsoleAssumption DEF Calls
      <3> QED BY <2>1, <2>2, <3>2 DEF Safe, AnswersStayInChat, Waits
    <2> QED BY <2>4, <2>5, <2>6, <2>7 DEF Safe
  <1> QED BY <1>1, <1>2, <1>3, <1>4, <1>5 DEF Resume

-----------------------------------------------------------------------------
(* The theorems.                                                           *)

LEMMA Initially == Init => TypeOK /\ Safe
  <1> SUFFICES ASSUME Init PROVE TypeOK /\ Safe
    OBVIOUS
  <1>1. \A i \in Calls : calls[i].kind = "ended"
    BY DEF Init, Ended
  <1>2. calls \in [Calls -> [kind : Kinds, arg : Args, polls : 0..(MaxPolls - 1)]]
    <2>1. 0 \in 0..(MaxPolls - 1) /\ "ended" \in Kinds /\ NULL \in Args
      BY ConsoleAssumption DEF Kinds, Args
    <2> QED BY <2>1 DEF Init, Ended
  <1>3. TypeOK
    BY <1>1, <1>2 DEF Init, TypeOK, Waits, Args
  <1>4. OneTest /\ LlmWasChecked
    BY <1>1 DEF Init, OneTest, LlmWasChecked, Waits
  <1>5. AnswersStayInChat /\ StoredIsInUse
    BY DEF Init, AnswersStayInChat, StoredIsInUse, Loaded
  <1> QED BY <1>3, <1>4, <1>5 DEF Safe

LEMMA NextStep == TypeOK /\ Safe /\ [Next]_vars => TypeOK' /\ Safe'
  <1> SUFFICES ASSUME TypeOK, Safe, [Next]_vars PROVE TypeOK' /\ Safe'
    OBVIOUS
  <1>1. CASE Next
    BY <1>1, ActStep, ResumeStep DEF Next
  <1>2. CASE UNCHANGED vars
    <2>1. UNCHANGED <<chat, ai, connection, upload, calls>>
      BY <1>2 DEF vars, chat, ai, connection, upload
    <2>2. SameChatsAndTests
      BY <2>1 DEF SameChatsAndTests, Waits
    <2>3. TypeOK'
      BY <2>1 DEF TypeOK, chat, ai, connection, upload, Waits
    <2> QED BY <2>1, <2>2, <2>3, Undisturbed
  <1> QED BY <1>1, <1>2

LEMMA Invariant == Spec => [](TypeOK /\ Safe)
  BY Initially, NextStep, PTL DEF Spec

\* Handlers, stored settings, bubbles and the form keep their types.
THEOREM TypeCorrect == Spec => []TypeOK
  BY Invariant, PTL

\* However many questions, chats and reloads overlap, an answer never appears in
\* a chat other than the one its question was asked in, and no bubble is left
\* without a handler that will fill it.
THEOREM AnswersKeptInChat == Spec => []AnswersStayInChat
  <1>1. TypeOK /\ Safe => AnswersStayInChat
    BY DEF Safe
  <1> QED BY <1>1, Invariant, PTL

\* No settings that the API has not tried out are ever in use or in storage, and
\* the form is disabled exactly while a trial is under way.
THEOREM LlmChecked == Spec => []LlmWasChecked
  <1>1. TypeOK /\ Safe => LlmWasChecked
    BY DEF Safe
  <1> QED BY <1>1, Invariant, PTL

\* What a later visit finds in storage is the choice in use now.
THEOREM StoredInUse == Spec => []StoredIsInUse
  <1>1. TypeOK /\ Safe => StoredIsInUse
    BY DEF Safe
  <1> QED BY <1>1, Invariant, PTL

=============================================================================
