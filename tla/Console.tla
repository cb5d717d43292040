------------------------------ MODULE Console ------------------------------
(***************************************************************************)
(* The test console in the browser (web/app.js).  Its handlers run one at a *)
(* time and are interrupted at every await: what follows an await is a step *)
(* of its own, which may come after any number of other handlers.  A call   *)
(* is a handler that is waiting, for the API, a file or a timer.  What the  *)
(* API answers is not known here (external): any call may fail, and a job   *)
(* may never be finished.                                                   *)
(*                                                                          *)
(* The page is one tab of one browser.  Not modelled: how anything looks,   *)
(* and browsers without working storage.                                    *)
(***************************************************************************)
EXTENDS Naturals

CONSTANTS
    Keys,      \* access keys
    Files,     \* files a user may choose
    TooLarge,  \* the files above maxFileBytes
    Large,     \* the files above BACKGROUND_ABOVE_BYTES
    Settings,  \* the users' own provider settings
    MaxPolls,  \* how often followJob asks (900)
    MaxCalls,  \* bound: handlers that wait at the same time
    MaxChats,  \* bound: new chats, with the page loaded again or not
    NULL

ASSUME ConsoleAssumption ==
    /\ TooLarge \subseteq Files /\ Large \subseteq Files
    /\ NULL \notin Keys \cup Files \cup Settings
    /\ MaxPolls \in Nat \ {0} /\ MaxCalls \in Nat \ {0} /\ MaxChats \in Nat

VARIABLES
    key,        \* state.key, which is also in sessionStorage
    connected,  \* state.connected
    session,    \* state.session: the number of the chat
    llm,        \* state.llm
    saving,     \* whether the button that saves other settings is disabled
    tab, disk,  \* the settings in sessionStorage and in localStorage
    file, text, \* state.file, and whether text is pasted
    uploadOn,   \* whether the upload button is enabled
    messages,   \* the bubbles on the page: their session, and the call that fills one
    calls,      \* calls[i]: a handler that is waiting, or none
    checked     \* history: the settings for which /v1/llm/test has said ok

vars == <<key, connected, session, llm, saving, tab, disk, file, text,
          uploadOn, messages, calls, checked>>

connection == <<key, connected>>
ai == <<llm, saving, tab, disk, checked>>
upload == <<file, text, uploadOn>>
chat == <<session, messages>>

Ended == [kind |-> "ended", arg |-> NULL, polls |-> 0]

Calls == 1..MaxCalls
Free == {i \in Calls : calls[i] = Ended}
Slot == CHOOSE i \in Free : TRUE

\* A handler reaches an await, and leaves it: for the next, or at its end.
Start(kind, arg) == /\ Free # {}
                    /\ calls' = [calls EXCEPT ![Slot] = [kind |-> kind, arg |-> arg, polls |-> 0]]
Continue(i, kind, arg) == calls' = [calls EXCEPT ![i] = [kind |-> kind, arg |-> arg, polls |-> 0]]
End(i) == calls' = [calls EXCEPT ![i] = Ended]
Waits(i, kind) == calls[i].kind = kind

\* updateButtons, in a step that gives the content these values.
UpdateButtons == uploadOn' = (connected' /\ (file' # NULL \/ text'))

-----------------------------------------------------------------------------

\* loadLlm: what init finds in storage.
Loaded(t, d) == IF t # NULL THEN t ELSE d

Init == /\ key = NULL /\ connected = FALSE
        /\ session = 0 /\ messages = {}
        /\ llm = NULL /\ saving = FALSE
        /\ tab = NULL /\ disk = NULL /\ checked = {}
        /\ file = NULL /\ text = FALSE /\ uploadOn = FALSE
        /\ calls = [i \in Calls |-> Ended]

\* The page is loaded again, in this tab or, when it was closed, in a new one:
\* no handler survives, and a key that is in the tab's storage is connected.
Load(t) ==
    /\ session < MaxChats
    /\ key' = IF t THEN key ELSE NULL
    /\ connected' = FALSE
    /\ session' = session + 1 /\ messages' = {}
    /\ tab' = IF t THEN tab ELSE NULL
    /\ llm' = Loaded(tab', disk) /\ saving' = FALSE
    /\ file' = NULL /\ text' = FALSE /\ UpdateButtons
    /\ calls' = [i \in Calls |-> IF i = 1 /\ key' # NULL
                                  THEN [Ended EXCEPT !.kind = "me"] ELSE Ended]
    /\ UNCHANGED <<disk, checked>>

-----------------------------------------------------------------------------
(* Connecting, and the list of documents.                                  *)

Connect(k) ==
    /\ Start("me", NULL)
    /\ key' = k
    /\ UNCHANGED <<connected, chat, ai, upload>>

\* /v1/me answers: the form shows the AI in use, and the list is awaited.
Identified(i) ==
    /\ Waits(i, "me")
    /\ connected' = TRUE
    /\ Continue(i, "documents", NULL)
    /\ UNCHANGED <<key, chat, ai, upload>>

\* The list has arrived, or failed, and connect ends.
Connected(i) ==
    /\ Waits(i, "documents")
    /\ End(i)
    /\ UNCHANGED <<connection, file, text>> /\ UpdateButtons
    /\ UNCHANGED <<chat, ai>>

NotIdentified(i) ==
    /\ Waits(i, "me")
    /\ connected' = FALSE
    /\ UNCHANGED <<file, text>> /\ UpdateButtons
    /\ End(i)
    /\ UNCHANGED <<key, chat, ai>>

\* refreshDocuments that a click or the end of another handler started.
Listed(i) ==
    /\ Waits(i, "list")
    /\ End(i)
    /\ UNCHANGED <<connection, chat, ai, upload>>

Refresh ==
    /\ connected
    /\ Start("list", NULL)
    /\ UNCHANGED <<connection, chat, ai, upload>>

\* PATCH or DELETE of a document in the list, which may be on the page once a key
\* was tried, also while another one is; afterwards the list is read again.
Edit ==
    /\ key # NULL
    /\ Start("edit", NULL)
    /\ UNCHANGED <<connection, chat, ai, upload>>

Edited(i, ok) ==
    /\ Waits(i, "edit")
    /\ IF ok /\ connected THEN Continue(i, "list", NULL) ELSE End(i)
    /\ UNCHANGED <<connection, chat, ai, upload>>

-----------------------------------------------------------------------------
(* Uploads.                                                                *)

\* chooseFile; a file that is too large is refused.
ChooseFile(f) ==
    /\ file' = IF f \in TooLarge THEN NULL ELSE f
    /\ UNCHANGED <<connection, text>> /\ UpdateButtons
    /\ UNCHANGED <<chat, ai, calls>>

Paste(on) ==
    /\ text' = on
    /\ UNCHANGED <<connection, file>> /\ UpdateButtons
    /\ UNCHANGED <<chat, ai, calls>>

\* Upload: a file is read first, pasted text is sent at once.
Upload(background) ==
    /\ uploadOn
    /\ IF file # NULL THEN Start("read", file) /\ UNCHANGED uploadOn
       ELSE Start(IF background THEN "queue" ELSE "store", NULL) /\ uploadOn' = FALSE
    /\ UNCHANGED <<connection, chat, ai, file, text>>

\* The file is read; type and size are those of the file that is chosen now, and
\* when there is none the handler ends with an exception.
FileRead(i, background) ==
    /\ Waits(i, "read")
    /\ IF file = NULL THEN End(i) /\ UNCHANGED uploadOn
       ELSE /\ Continue(i, IF background \/ file \in Large THEN "queue" ELSE "store", NULL)
            /\ uploadOn' = FALSE
    /\ UNCHANGED <<connection, chat, ai, file, text>>

FileUnreadable(i) ==
    /\ Waits(i, "read")
    /\ End(i)
    /\ UNCHANGED <<connection, chat, ai, upload>>

\* What follows a stored or queued upload: the form is emptied, the list read.
Finish(i) ==
    /\ file' = NULL /\ text' = FALSE
    /\ UNCHANGED connection /\ UpdateButtons
    /\ IF connected THEN Continue(i, "list", NULL) ELSE End(i)
    /\ UNCHANGED <<chat, ai>>

Stored(i) == Waits(i, "store") /\ Finish(i)

\* The API or the job has failed: the content stays for another try.
UploadFailed(i) ==
    /\ calls[i].kind \in {"store", "queue", "poll"}
    /\ End(i)
    /\ UNCHANGED <<connection, file, text>> /\ UpdateButtons
    /\ UNCHANGED <<chat, ai>>

Queued(i) ==
    /\ Waits(i, "queue")
    /\ Continue(i, "poll", NULL)
    /\ UNCHANGED <<connection, chat, ai, upload>>

Followed(i) == Waits(i, "poll") /\ Finish(i)

\* Mutant: the count of the attempts begins again, and a job is followed until
\* it ends.
StillRunning_Forever(i) ==
    /\ Waits(i, "poll")
    /\ calls' = [calls EXCEPT ![i].polls = (@ + 1) % MaxPolls]
    /\ UNCHANGED <<connection, chat, ai, upload>>

\* The job is still running: ask again in a second, but not forever.
StillRunning(i) ==
    /\ Waits(i, "poll")
    /\ IF calls[i].polls + 1 = MaxPolls THEN Finish(i)
       ELSE /\ calls' = [calls EXCEPT ![i].polls = @ + 1]
            /\ UNCHANGED <<connection, chat, ai, upload>>

-----------------------------------------------------------------------------
(* The chat.                                                               *)

\* ask: the question is shown in the current chat, with a bubble to be filled.
\* The Enter key asks although the button is disabled.
Ask ==
    /\ Start("chat", session)
    /\ messages' = messages \cup {[session |-> session, call |-> Slot]}
    /\ UNCHANGED <<connection, file, text>> /\ UpdateButtons
    /\ UNCHANGED <<session, ai>>

\* Mutant: the answer is added to the page as it is then.
Answer_NewBubble(i) ==
    /\ Waits(i, "chat")
    /\ messages' = {m \in messages : m.call # i} \cup {[session |-> calls[i].arg, call |-> 0]}
    /\ End(i)
    /\ UNCHANGED <<connection, session, ai, upload>>

\* The answer, or the error, is written into the bubble of its question, which
\* may no longer be part of the page.
Answer(i) ==
    /\ Waits(i, "chat")
    /\ messages' = {[m EXCEPT !.call = IF @ = i THEN 0 ELSE @] : m \in messages}
    /\ End(i)
    /\ UNCHANGED <<connection, session, ai, upload>>

NewChat ==
    /\ session < MaxChats
    /\ session' = session + 1
    /\ messages' = {}
    /\ UNCHANGED <<connection, ai, upload, calls>>

-----------------------------------------------------------------------------
(* Which AI answers.                                                       *)

\* Mutant: saveLlm leaves the other storage as it is.
SaveLlm_OneStore(s, r) ==
    /\ disk' = IF r THEN s ELSE disk
    /\ tab' = IF r THEN tab ELSE s

\* saveLlm: both storages are emptied, then one is written.
SaveLlm(s, r) ==
    /\ disk' = IF r THEN s ELSE NULL
    /\ tab' = IF r THEN NULL ELSE s

\* "Built-in" is saved at once.
SaveBuiltin ==
    /\ ~saving
    /\ llm' = NULL
    /\ SaveLlm(NULL, FALSE)
    /\ UNCHANGED <<connection, chat, saving, checked, upload, calls>>

\* The settings that the form holds are tried out first.
SaveOwn(s) ==
    /\ ~saving
    /\ Start("test", s)
    /\ saving' = TRUE
    /\ UNCHANGED <<connection, chat, llm, tab, disk, checked, upload>>

\* Mutant: the form is read again once the answer is there.
Works_FormNow(i, remember) ==
    /\ Waits(i, "test")
    /\ llm' \in Settings
    /\ SaveLlm(llm', remember)
    /\ saving' = FALSE
    /\ checked' = checked \cup {calls[i].arg}
    /\ End(i)
    /\ UNCHANGED <<connection, chat, upload>>

\* They work and are used from now on; they are remembered when the box is
\* ticked by then.
Works(i, remember) ==
    /\ Waits(i, "test")
    /\ llm' = calls[i].arg
    /\ SaveLlm(llm', remember)
    /\ saving' = FALSE
    /\ checked' = checked \cup {calls[i].arg}
    /\ End(i)
    /\ UNCHANGED <<connection, chat, upload>>

\* They do not, or the API did not answer.
DoesNotWork(i) ==
    /\ Waits(i, "test")
    /\ saving' = FALSE
    /\ End(i)
    /\ UNCHANGED <<connection, chat, llm, tab, disk, checked, upload>>

-----------------------------------------------------------------------------

\* A handler goes on after its await.
Resume(i) == \/ Identified(i) \/ NotIdentified(i) \/ Connected(i) \/ Listed(i)
             \/ \E ok \in BOOLEAN : Edited(i, ok)
             \/ \E b \in BOOLEAN : FileRead(i, b) \/ Works(i, b)
             \/ FileUnreadable(i) \/ Stored(i) \/ UploadFailed(i) \/ Queued(i) \/ Followed(i)
             \/ StillRunning(i) \/ Answer(i) \/ DoesNotWork(i)

\* The user acts.
Act == \/ \E k \in Keys : Connect(k)
       \/ Refresh \/ Edit
       \/ \E f \in Files : ChooseFile(f)
       \/ \E b \in BOOLEAN : Paste(b) \/ Upload(b)
       \/ Ask \/ NewChat
       \/ SaveBuiltin \/ \E s \in Settings : SaveOwn(s)
       \/ \E t \in BOOLEAN : Load(t)

Next == Act \/ \E i \in Calls : Resume(i)

\* Every call is answered or fails in the end; the user may do nothing.
Fairness == \A i \in Calls : WF_vars(Resume(i))

Spec == Init /\ [][Next]_vars /\ Fairness

-----------------------------------------------------------------------------
(* Properties.                                                             *)

Kinds == {"me", "documents", "list", "edit", "read", "store", "queue", "poll", "chat", "test", "ended"}

\* Calls, files, settings and bubbles have their types.
TypeOK ==
    /\ key \in Keys \cup {NULL} /\ connected \in BOOLEAN /\ session \in Nat
    /\ {llm, tab, disk} \subseteq Settings \cup {NULL} /\ saving \in BOOLEAN
    /\ file \in (Files \ TooLarge) \cup {NULL} /\ text \in BOOLEAN /\ uploadOn \in BOOLEAN
    /\ calls \in [Calls -> [kind : Kinds, arg : Files \cup Settings \cup Nat \cup {NULL},
                            polls : 0..(MaxPolls - 1)]]
    /\ \A i \in Calls : Waits(i, "test") => calls[i].arg \in Settings
    /\ messages \subseteq [session : Nat, call : 0..MaxCalls]

\* An answer that arrives after "New chat" does not appear in the new one: what
\* is on the page belongs to the chat that the next question continues, and a
\* bubble that is not filled has a call that will fill it.
AnswersStayInChat ==
    \A m \in messages : m.session = session /\ (m.call # 0 => Waits(m.call, "chat"))

\* "A broken key is never silently in use": settings in use, or in storage for
\* the next visit, are some that the API has tried out, and the form can be saved
\* again as soon as no trial is under way.
LlmWasChecked == /\ {llm, tab, disk} \subseteq checked \cup {NULL}
                 /\ saving <=> \E i \in Calls : Waits(i, "test")

\* One storage at most holds settings, and they are those in use: a visit later
\* begins with the user's last choice and not with an earlier one.
StoredIsInUse == /\ tab = NULL \/ disk = NULL
                 /\ Loaded(tab, disk) = llm

\* No handler waits forever: an upload is given up when its job never ends.
CallsEnd == \A i \in Calls : calls[i] # Ended ~> calls[i] = Ended

=============================================================================
