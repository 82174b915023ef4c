---------------------------- MODULE TrustPrompts ----------------------------
(***************************************************************************)
(* The prompts that ask the user about devices not yet trusted             *)
(* (app/ui/app.py, TrustPromptModal in app/ui/modals/identity.py).         *)
(*                                                                         *)
(* A connection with a PENDING device raises TrustRequired.  One prompt is *)
(* open at a time; the others wait in _trust_prompt_queue while it, a file *)
(* offer, the unlock prompt or a key dialogue is on the screen stack, and  *)
(* each screen that closes lets the next one in.  The toolkit (Textual)    *)
(* calls pop_screen() when a screen is dismissed and runs the callback of  *)
(* push_screen() and of call_after_refresh() later, and both end in the    *)
(* same queue.                                                             *)
(***************************************************************************)
EXTENDS Naturals, Sequences, FiniteSets, SequencesExt

CONSTANTS
    Strangers,      \* devices that are not trusted yet
    NoPrompt,       \* no prompt is open
    MaxModals,      \* file offers, key dialogues and wrong passphrases
    MaxEvents,      \* TrustRequired events
    MaxRelocks      \* locks of the vault

Blocking == {"offer", "dialog", "unlock"}

ASSUME PromptNames ==
    /\ Strangers \cap Blocking = {} /\ NoPrompt \notin Strangers
    /\ MaxModals \in Nat /\ MaxEvents \in Nat /\ MaxRelocks \in Nat

VARIABLES
    screens,    \* the screen stack; a prompt is the device it is about
    queue,      \* _trust_prompt_queue
    current,    \* _current_trust_prompt; _trust_prompt_open says if there is one
    calls,      \* callbacks of dismissed prompts that have not run
    drains,     \* calls of _dequeue_next_trust_prompt() that have not run
    raised,     \* TrustRequired events under way
    decided,    \* trusted_devices: the devices that are no longer PENDING
    shut,       \* the vault is locked
    relocking,  \* _relocking: the unlock prompt is up, or its worker runs
    running,    \* no exception has ended the program
    owed,       \* devices whose event has been handled, until they are answered
    late,       \* an event has come while the vault was locked
    modals, events, relocks     \* used up so far

used == <<modals, events, relocks>>
pvars == <<screens, queue, current, calls, drains, raised, decided, shut,
           relocking, running, owed, late, used>>

Top == Last(screens)
Prompts == {i \in DOMAIN screens : screens[i] \in Strangers}

PTypeOK ==
    /\ screens \in Seq(Strangers \cup Blocking) /\ queue \in Seq(Strangers)
    /\ current \in Strangers \cup {NoPrompt} /\ {calls, drains} \subseteq Nat
    /\ UNION {raised, decided, owed} \subseteq Strangers
    /\ {shut, relocking, running, late} \subseteq BOOLEAN
    /\ modals \in 0..MaxModals /\ events \in 0..MaxEvents /\ relocks \in 0..MaxRelocks
    /\ current # NoPrompt => current \in ToSet(screens)
    /\ IsInjective(queue)

PInit ==
    /\ screens = <<>> /\ queue = <<>> /\ current = NoPrompt
    /\ calls = 0 /\ drains = 0 /\ raised = {} /\ decided = {}
    /\ shut = FALSE /\ relocking = FALSE /\ running = TRUE
    /\ owed = {} /\ late = FALSE
    /\ modals = 0 /\ events = 0 /\ relocks = 0

-----------------------------------------------------------------------------
(* The queue.                                                              *)

\* _has_blocking_modal()
HasBlockingModal(stack) == relocking \/ ToSet(stack) \cap Blocking # {}

\* Mutant: the prompt is taken from the queue before the other screens are
\* looked at.
DequeueFirst(stack, open) ==
    IF queue = <<>>
    THEN screens' = stack /\ current' = open /\ UNCHANGED queue
    ELSE /\ queue' = Tail(queue)
         /\ IF open # NoPrompt \/ HasBlockingModal(stack) \/ shut
            THEN screens' = stack /\ current' = open
            ELSE screens' = Append(stack, Head(queue)) /\ current' = Head(queue)

\* _dequeue_next_trust_prompt(), over a stack and with a prompt open or not.
\* A device is in the queue once, so its duplicates need no removal.
Dequeue(stack, open) ==
    IF open # NoPrompt \/ HasBlockingModal(stack) \/ shut \/ queue = <<>>
    THEN screens' = stack /\ current' = open /\ UNCHANGED queue
    ELSE /\ screens' = Append(stack, Head(queue)) /\ current' = Head(queue)
         /\ queue' = Tail(queue)

\* Mutant: the flag is reset and the queue forgotten.
OnPromptDismissedOnly(stack) ==
    screens' = stack /\ current' = NoPrompt /\ UNCHANGED queue

\* _on_prompt_dismissed()
OnPromptDismissed(stack) ==
    IF current = NoPrompt THEN screens' = stack /\ UNCHANGED <<queue, current>>
                          ELSE Dequeue(stack, NoPrompt)

-----------------------------------------------------------------------------
(* Events and answers.                                                     *)

\* A handshake with a PENDING device ends and _register_session() publishes.
\* The decision was read while the vault was open; handlers of other events
\* run first.
Meet(d) ==
    /\ running /\ ~shut /\ d \notin decided \cup raised
    /\ events < MaxEvents /\ events' = events + 1
    /\ raised' = raised \cup {d}
    /\ UNCHANGED <<screens, queue, current, calls, drains, decided, shut,
                   relocking, running, owed, late, modals, relocks>>

\* _on_trust_required()
OnTrustRequired(d) ==
    /\ running /\ d \in raised /\ raised' = raised \ {d}
    /\ IF d \in ToSet(queue) \/ d = current THEN UNCHANGED <<screens, queue, current>>
       ELSE IF HasBlockingModal(screens) \/ current # NoPrompt
       THEN queue' = Append(queue, d) /\ UNCHANGED <<screens, current>>
       ELSE screens' = Append(screens, d) /\ current' = d /\ UNCHANGED queue
    /\ owed' = owed \cup {d} /\ late' = (late \/ shut)
    /\ UNCHANGED <<calls, drains, decided, shut, relocking, running, used>>

\* Trust, Reject or Later in the prompt on top, then dismiss(): the callback is
\* scheduled and pop_screen() tells the queue.
Answer(button) ==
    /\ running /\ screens # <<>> /\ Top \in Strangers
    /\ shut => button = "later"
    /\ decided' = IF button = "later" THEN decided ELSE decided \cup {Top}
    /\ OnPromptDismissed(Front(screens)) /\ calls' = calls + 1
    /\ owed' = owed \ {Top}
    /\ UNCHANGED <<drains, raised, shut, relocking, running, late, used>>

\* The same while the table is detached: RuntimeError ends the program.
AnswerFails(button) ==
    /\ running /\ screens # <<>> /\ Top \in Strangers
    /\ shut /\ button # "later"
    /\ running' = FALSE
    /\ UNCHANGED <<screens, queue, current, calls, drains, raised, decided, shut,
                   relocking, owed, late, used>>

\* The scheduled callback of a dismissed prompt.
RunCallback ==
    /\ running /\ calls > 0 /\ calls' = calls - 1
    /\ OnPromptDismissed(screens)
    /\ UNCHANGED <<drains, raised, decided, shut, relocking, running, owed, late, used>>

RunDrain ==
    /\ running /\ drains > 0 /\ drains' = drains - 1
    /\ Dequeue(screens, current)
    /\ UNCHANGED <<calls, raised, decided, shut, relocking, running, owed, late, used>>

-----------------------------------------------------------------------------
(* Other screens, and the lock.                                            *)

OpenModal(kind) ==
    /\ running /\ ~relocking /\ kind \in {"offer", "dialog"}
    /\ modals < MaxModals /\ modals' = modals + 1
    /\ screens' = Append(screens, kind)
    /\ UNCHANGED <<queue, current, calls, drains, raised, decided, shut, relocking,
                   running, owed, late, events, relocks>>

\* pop_screen() drains the queue after the refresh; _on_offer_received() drains
\* it once more when it continues.
CloseModal ==
    /\ running /\ screens # <<>> /\ Top \in Blocking
    /\ screens' = Front(screens)
    /\ drains' = drains + (IF Top = "offer" THEN 2 ELSE 1)
    /\ UNCHANGED <<queue, current, calls, raised, decided, shut, relocking,
                   running, owed, late, used>>

\* _perform_hard_lock() of one of several lock workers: the queue is cleared
\* and the prompt on top removed with pop_screen().  A prompt under another screen is dismissed, which the
\* toolkit refuses for a screen that is not on top.
LockPrompts ==
    /\ running
    /\ relocks < MaxRelocks /\ relocks' = relocks + 1
    /\ queue' = <<>> /\ current' = NoPrompt /\ shut' = TRUE
    /\ screens' = IF screens # <<>> /\ Top \in Strangers THEN Front(screens) ELSE screens
    /\ owed' = {}
    /\ UNCHANGED <<calls, drains, raised, decided, relocking, running, late,
                   modals, events>>

\* _reunlock_vault(), and again after a wrong passphrase.
PromptUnlock ==
    /\ running /\ shut /\ "unlock" \notin ToSet(screens)
    /\ relocking' = TRUE /\ screens' = Append(screens, "unlock")
    /\ IF relocking THEN modals < MaxModals /\ modals' = modals + 1 ELSE UNCHANGED modals
    /\ UNCHANGED <<queue, current, calls, drains, raised, decided, shut, running,
                   owed, late, events, relocks>>

\* The passphrase was right: the stores are attached and the worker ends.
Reunlocked ==
    /\ running /\ relocking /\ "unlock" \notin ToSet(screens)
    /\ shut' = FALSE /\ relocking' = FALSE
    /\ UNCHANGED <<screens, queue, current, calls, drains, raised, decided, running,
                   owed, late, used>>

PNext ==
    \/ \E d \in Strangers : Meet(d) \/ OnTrustRequired(d)
    \/ \E button \in {"decide", "later"} : Answer(button) \/ AnswerFails(button)
    \/ RunCallback \/ RunDrain \/ LockPrompts \/ PromptUnlock \/ Reunlocked
    \/ \E kind \in {"offer", "dialog"} : OpenModal(kind)
    \/ CloseModal

PSpec == PInit /\ [][PNext]_pvars

-----------------------------------------------------------------------------
(* Properties.                                                             *)

\* A device that raised TrustRequired is on the screen or in the queue until
\* the user has answered or the vault was locked: no order of dismissals,
\* callbacks and other screens drops it (_on_trust_required()).
NoneForgotten == owed \subseteq ToSet(screens) \cup ToSet(queue)

\* Whatever waits in the queue waits for something that will let it in: an open
\* prompt, another screen, or a call that is scheduled.  Events that came while
\* the vault was locked are the exception: the calls scheduled by the screens
\* that close may all run before it is unlocked, and none follows the unlocking
\* (_dequeue_next_trust_prompt()).
WaitingHasACause ==
    queue # <<>> /\ ~late =>
        current # NoPrompt \/ HasBlockingModal(screens) \/ calls + drains > 0

\* No device is asked about in two prompts at a time: what _on_trust_required()
\* says of its second test, "skip if prompt is currently open for this combo".
PromptedOnce == \A i, j \in Prompts : screens[i] = screens[j] => i = j
=============================================================================
