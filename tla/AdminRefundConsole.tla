------------------------- MODULE AdminRefundConsole -------------------------
(***************************************************************************)
(* The administration page's side of a compensation or a refund retry: the *)
(* session it holds in memory (auth-session.ts), requests that refresh it  *)
(* and go on (admin-api.ts), the dialog that previews and confirms         *)
(* (OrderRefundCommandDialog.vue) and the journal, one command of each     *)
(* account, that survives a reload (admin-refund-command-journal.ts).      *)
(*                                                                         *)
(* The server is the confirmation's transaction: it reads a snapshot when  *)
(* it begins and answers from it, unless what it writes was written since. *)
(* A request the page no longer waits for may still be under way.  What is *)
(* computed between two digests is one step, as the session cannot change  *)
(* there.  The 24 hours of the journal and of the record are left out.     *)
(***************************************************************************)
EXTENDS Integers, Sequences

CONSTANTS Admins,
          MaxSessions, MaxTokens, MaxPreviews, MaxCommands, MaxCalls  \* bounds

AdminRefundConsoleAssumption ==
    {MaxSessions, MaxTokens, MaxPreviews, MaxCommands, MaxCalls} \subseteq Nat \ {0}

VARIABLES
    page,     \* memory: the session signed in, or 0, and its access token
    dialog,   \* memory: open, the command and preview it shows, the call it waits for
    journal,  \* sessionStorage: the command of each account whose outcome is not known, or 0
    calls,    \* confirmations begun: key, session, page's and server's progress
    sessions, \* server: owner, access token in force, still open
    previews, \* server: session, consumed, lapsed
    commands, \* idempotency keys: account, preview, whether executed
    shown     \* history: keys told to have succeeded, and to have been refused

vars == <<page, dialog, journal, calls, sessions, previews, commands, shown>>
memory == <<page, dialog>>

NoDialog == [open |-> FALSE, restoring |-> FALSE, command |-> 0, preview |-> 0, pending |-> 0]
SignedOut == [session |-> 0, token |-> 0]

Init ==
    /\ page = SignedOut /\ dialog = NoDialog
    /\ journal = [a \in Admins |-> 0]
    /\ calls = <<>> /\ sessions = <<>> /\ previews = <<>> /\ commands = <<>>
    /\ shown = [done |-> {}, refused |-> {}]

Account == sessions[page.session].owner
CommandOf(c) == commands[calls[c].key]

--------------------------------
\* The session.

Login(a) ==
    /\ page.session = 0 /\ Len(sessions) < MaxSessions
    /\ sessions' = Append(sessions, [owner |-> a, token |-> 1, live |-> TRUE])
    /\ page' = [session |-> Len(sessions) + 1, token |-> 1] /\ dialog' = NoDialog
    /\ UNCHANGED <<journal, calls, previews, commands, shown>>

\* endCurrentSession: the page forgets it, whether or not the server could be told.
Logout ==
    /\ page.session # 0 /\ ~dialog.open
    /\ \E told \in BOOLEAN : sessions' = [sessions EXCEPT ![page.session].live = @ /\ ~told]
    /\ page' = SignedOut /\ dialog' = NoDialog
    /\ UNCHANGED <<journal, calls, previews, commands, shown>>

\* Another request of the page found the session gone, and clears it.
OtherRequestSignsOut ==
    /\ page.session # 0 /\ ~sessions[page.session].live
    /\ page' = SignedOut /\ dialog' = NoDialog
    /\ UNCHANGED <<journal, calls, sessions, previews, commands, shown>>

\* Another request of the page found its access token expired, and renewed it.
OtherRequestRefreshes ==
    /\ page.session # 0 /\ sessions[page.session].live
    /\ page.token # sessions[page.session].token
    /\ page' = [page EXCEPT !.token = sessions[page.session].token]
    /\ UNCHANGED <<dialog, journal, calls, sessions, previews, commands, shown>>

\* Memory is lost; what was sent goes on without it.
Reload ==
    /\ page.session # 0
    /\ page' = SignedOut /\ dialog' = NoDialog
    /\ calls' = [c \in DOMAIN calls |-> [calls[c] EXCEPT !.stage = "ENDED"]]
    /\ UNCHANGED <<journal, sessions, previews, commands, shown>>

AccessExpires(s) ==
    /\ sessions[s].live /\ sessions[s].token < MaxTokens
    /\ sessions' = [sessions EXCEPT ![s].token = @ + 1]
    /\ UNCHANGED <<memory, journal, calls, previews, commands, shown>>

SessionEnds(s) ==
    /\ sessions[s].live
    /\ sessions' = [sessions EXCEPT ![s].live = FALSE]
    /\ UNCHANGED <<memory, journal, calls, previews, commands, shown>>

--------------------------------
\* The dialog.

Open ==
    /\ page.session # 0 /\ ~dialog.open
    /\ dialog' = [NoDialog EXCEPT !.open = TRUE, !.restoring = TRUE]
    /\ UNCHANGED <<page, journal, calls, sessions, previews, commands, shown>>

\* restorePendingJournal, after its digest: the account's pending command
\* comes back over whatever was previewed meanwhile.
Restore ==
    /\ dialog.open /\ dialog.restoring /\ dialog.pending = 0
    /\ LET k == journal[Account]
       IN  dialog' = [dialog EXCEPT !.restoring = FALSE, !.command = k,
                                    !.preview = IF k = 0 THEN @ ELSE commands[k].preview]
    /\ UNCHANGED <<page, journal, calls, sessions, previews, commands, shown>>

\* It cannot be closed while a command is pending or its outcome unknown.
Close ==
    /\ dialog.open /\ dialog.pending = 0 /\ dialog.command = 0
    /\ dialog' = NoDialog
    /\ UNCHANGED <<page, journal, calls, sessions, previews, commands, shown>>

RequestPreview ==
    /\ dialog.open /\ dialog.preview = 0 /\ dialog.pending = 0 /\ Len(previews) < MaxPreviews
    /\ sessions[page.session].live /\ sessions[page.session].token = page.token
    /\ previews' = Append(previews, [session |-> page.session, used |-> FALSE, lapsed |-> FALSE])
    /\ dialog' = [dialog EXCEPT !.preview = Len(previews) + 1]
    /\ UNCHANGED <<page, journal, calls, sessions, commands, shown>>

\* prepareAdminRefundCommandJournal: a new key only when nothing is pending.
\* (The pending command is never of a preview just shown: Restore brings it back.)
PreparesNew(a) == journal[a] = 0

Sent(k) ==
    /\ Len(calls) < MaxCalls
    /\ calls' = Append(calls, [key |-> k, session |-> page.session, stage |-> "WAITING",
                               by |-> page.session, token |-> page.token, at |-> "SENT",
                               saw |-> [record |-> FALSE, usable |-> FALSE], answer |-> "NONE"])
    /\ dialog' = [dialog EXCEPT !.command = k, !.pending = Len(calls) + 1, !.restoring = FALSE]

\* confirm, of a preview just shown.
ConfirmNew ==
    /\ dialog.open /\ dialog.preview # 0 /\ dialog.pending = 0 /\ dialog.command = 0
    /\ PreparesNew(Account) /\ Len(commands) < MaxCommands
    /\ commands' = Append(commands, [by |-> Account, preview |-> dialog.preview, done |-> FALSE])
    /\ journal' = [journal EXCEPT ![Account] = Len(commands) + 1]
    /\ Sent(Len(commands) + 1)
    /\ UNCHANGED <<page, sessions, previews, shown>>

\* confirm, of the command that is pending: the same key again.
ConfirmPending ==
    /\ dialog.open /\ dialog.pending = 0 /\ dialog.command # 0
    /\ journal[Account] = dialog.command /\ Sent(dialog.command)
    /\ UNCHANGED <<page, journal, sessions, previews, commands, shown>>

--------------------------------
\* The server.

\* The guard of the request, then the snapshot of its transaction.
Arrive(c) ==
    /\ calls[c].at = "SENT"
    /\ LET s == sessions[calls[c].by]
           p == previews[CommandOf(c).preview]
           saw == [record |-> CommandOf(c).done, usable |-> ~p.used /\ ~p.lapsed]
       IN  calls' = [calls EXCEPT ![c] =
                        IF s.live /\ s.token = @.token
                        THEN [@ EXCEPT !.at = "RUNNING", !.saw = saw]
                        ELSE [@ EXCEPT !.at = "ANSWERED", !.answer = "UNAUTHORIZED"]]
    /\ UNCHANGED <<memory, journal, sessions, previews, commands, shown>>

Replayed(c) == calls[c].saw.record

\* consumeInTransaction: of another session, consumed or too old.
Refused(c) == /\ ~Replayed(c)
              /\ \/ previews[CommandOf(c).preview].session # calls[c].by
                 \/ ~calls[c].saw.usable

Answered(c, answer) == calls' = [calls EXCEPT ![c].at = "ANSWERED", ![c].answer = answer]

Answer(c) ==
    /\ calls[c].at = "RUNNING"
    /\ \/ Replayed(c) /\ Answered(c, "OK")
       \/ Refused(c) /\ Answered(c, "REFUSED")
    /\ UNCHANGED <<memory, journal, sessions, previews, commands, shown>>

Execute(c) ==
    /\ calls[c].at = "RUNNING" /\ ~Replayed(c) /\ ~Refused(c)
    /\ ~previews[CommandOf(c).preview].used
    /\ Answered(c, "OK")
    /\ previews' = [previews EXCEPT ![CommandOf(c).preview].used = TRUE]
    /\ commands' = [commands EXCEPT ![calls[c].key].done = TRUE]
    /\ UNCHANGED <<memory, journal, sessions, shown>>

\* What it wrote was written since its snapshot: it runs again, or gives up.
Conflict(c) ==
    /\ calls[c].at = "RUNNING" /\ ~Replayed(c) /\ ~Refused(c)
    /\ previews[CommandOf(c).preview].used
    /\ \/ calls' = [calls EXCEPT ![c].saw = [record |-> CommandOf(c).done, usable |-> FALSE]]
       \/ Answered(c, "CONFLICT")
    /\ UNCHANGED <<memory, journal, sessions, previews, commands, shown>>

PreviewLapses(p) ==
    /\ ~previews[p].lapsed
    /\ previews' = [previews EXCEPT ![p].lapsed = TRUE]
    /\ UNCHANGED <<memory, journal, calls, sessions, commands, shown>>

--------------------------------
\* What the page makes of the answer.

\* isCertainAdminRefundCommandFailure
Certain(answer) == answer = "REFUSED"

\* Mutant: any session will do.
AnySession(c) == page.session # 0

\* sameAdminSession
SameSession(c) == page.session = calls[c].session

\* executeAdminRefundCommandJournal after its await, and the dialog's handler:
\* what is known clears the journal and closes the dialog.
Ends(c, answer) ==
    LET k == calls[c].key
        known == answer = "OK" \/ Certain(answer)
    IN  /\ calls' = [calls EXCEPT ![c].stage = "ENDED"]
        /\ journal' = [a \in Admins |-> IF known /\ a = commands[k].by /\ journal[a] = k
                                        THEN 0 ELSE journal[a]]
        /\ shown' = [done |-> shown.done \union {x \in {k} : answer = "OK"},
                     refused |-> shown.refused \union {x \in {k} : Certain(answer)}]
        /\ dialog' = IF dialog.pending # c THEN dialog
                     ELSE IF known THEN NoDialog ELSE [dialog EXCEPT !.pending = 0]

Again(c) == [calls EXCEPT ![c].stage = "AGAIN", ![c].at = "SENT",
                          ![c].by = page.session, ![c].token = page.token]

\* clearSession, and the redirect to the login.
Expired(c) ==
    /\ page' = SignedOut /\ dialog' = NoDialog
    /\ calls' = [calls EXCEPT ![c].stage = "ENDED"]
    /\ UNCHANGED <<journal, shown>>

\* withSessionRefresh, its first try: a session that changed hides a success,
\* not a failure.
ReceiveFirst(c) ==
    /\ calls[c].stage = "WAITING" /\ calls[c].at = "ANSWERED" /\ calls[c].answer # "UNAUTHORIZED"
    /\ Ends(c, IF calls[c].answer = "OK" /\ ~SameSession(c) THEN "CHANGED" ELSE calls[c].answer)
    /\ UNCHANGED <<page, sessions, previews, commands>>

ReceiveUnauthorized(c) ==
    /\ calls[c].stage = "WAITING" /\ calls[c].at = "ANSWERED" /\ calls[c].answer = "UNAUTHORIZED"
    /\ \/ /\ ~SameSession(c) /\ Ends(c, "CHANGED")
       \/ /\ SameSession(c) /\ page.token # calls[c].token
          /\ calls' = Again(c) /\ UNCHANGED <<dialog, journal, shown>>
       \/ /\ SameSession(c) /\ page.token = calls[c].token
          /\ calls' = [calls EXCEPT ![c].stage = "REFRESHING"]
          /\ UNCHANGED <<dialog, journal, shown>>
    /\ UNCHANGED <<page, sessions, previews, commands>>

\* refreshAdminSessionFor answers; its failure, whatever it is, signs out.
Refreshed(c) ==
    /\ calls[c].stage = "REFRESHING" /\ SameSession(c)
    /\ sessions[calls[c].session].live
    /\ page' = [page EXCEPT !.token = sessions[calls[c].session].token]
    /\ calls' = [calls EXCEPT ![c].stage = "AGAIN", ![c].at = "SENT",
                              ![c].by = page.session, ![c].token = page'.token]
    /\ UNCHANGED <<dialog, journal, sessions, previews, commands, shown>>

RefreshFails(c) ==
    /\ calls[c].stage = "REFRESHING" /\ SameSession(c)
    /\ Expired(c) /\ UNCHANGED <<sessions, previews, commands>>

RefreshTooLate(c) ==
    /\ calls[c].stage = "REFRESHING" /\ ~SameSession(c)
    /\ Ends(c, "CHANGED") /\ UNCHANGED <<page, sessions, previews, commands>>

\* retryWithCurrentSession: after a change of session nothing it hears counts.
ReceiveAgain(c) ==
    /\ calls[c].stage = "AGAIN" /\ calls[c].at = "ANSWERED"
    /\ \/ ~SameSession(c) /\ Ends(c, "CHANGED") /\ UNCHANGED page
       \/ SameSession(c) /\ calls[c].answer # "UNAUTHORIZED" /\ Ends(c, calls[c].answer) /\ UNCHANGED page
       \/ SameSession(c) /\ calls[c].answer = "UNAUTHORIZED" /\ Expired(c)
    /\ UNCHANGED <<sessions, previews, commands>>

\* The connection breaks: the request may be lost, under way or answered.
Disconnected(c) ==
    /\ calls[c].stage \in {"WAITING", "AGAIN"}
    /\ Ends(c, "UNKNOWN") /\ UNCHANGED <<page, sessions, previews, commands>>

--------------------------------
Server(c) == Arrive(c) \/ Answer(c) \/ Execute(c) \/ Conflict(c)
Handle(c) == \/ ReceiveFirst(c) \/ ReceiveUnauthorized(c) \/ Refreshed(c) \/ RefreshFails(c)
             \/ RefreshTooLate(c) \/ ReceiveAgain(c) \/ Disconnected(c)

Next ==
    \/ \E a \in Admins : Login(a)
    \/ Logout \/ OtherRequestSignsOut \/ OtherRequestRefreshes \/ Reload
    \/ \E s \in DOMAIN sessions : AccessExpires(s) \/ SessionEnds(s)
    \/ Open \/ Restore \/ Close \/ RequestPreview \/ ConfirmNew \/ ConfirmPending
    \/ \E c \in DOMAIN calls : Server(c) \/ Handle(c)
    \/ \E p \in DOMAIN previews : PreviewLapses(p)

Spec == Init /\ [][Next]_vars

--------------------------------
\* Every variable has the shape the code gives it.  What the page refers to
\* exists: a pending dialog waits for a call of the command it shows.
TypeOK ==
    /\ page.session \in 0 .. Len(sessions) /\ page.token \in 0 .. MaxTokens
    /\ dialog.open => page.session # 0
    /\ dialog.command \in 0 .. Len(commands) /\ dialog.preview \in 0 .. Len(previews)
    /\ dialog.pending # 0 => calls[dialog.pending].key = dialog.command
    /\ journal \in [Admins -> 0 .. Len(commands)]
    /\ \A c \in DOMAIN calls : /\ calls[c].key \in DOMAIN commands
                               /\ calls[c].stage \in {"WAITING", "REFRESHING", "AGAIN", "ENDED"}
                               /\ calls[c].at \in {"SENT", "RUNNING", "ANSWERED"}
    /\ \A s \in DOMAIN sessions : sessions[s].owner \in Admins /\ sessions[s].live \in BOOLEAN
    /\ \A p \in DOMAIN previews : previews[p].session \in DOMAIN sessions
    /\ \A k \in DOMAIN commands : commands[k].by \in Admins
    /\ shown.done \union shown.refused \subseteq DOMAIN commands

\* A confirmation is only ever sent with a session of the account that
\* confirmed it, and a repetition only with the very session it began in,
\* however often the page signs out and in while it waits
\* (retryWithCurrentSession).
SentByItsAccount ==
    \A c \in DOMAIN calls : /\ calls[c].by = calls[c].session
                            /\ sessions[calls[c].by].owner = CommandOf(c).by

\* An account has at most one command whose outcome it was not told, and
\* that one is in its journal: no second compensation begins before the
\* first is settled.
OneAtATime ==
    \A a \in Admins :
        {k \in DOMAIN commands : commands[k].by = a /\ k \notin shown.done \union shown.refused}
            \subseteq {journal[a]}

\* A repetition of a command that was executed may be refused none the
\* less: its preview lapsed while the confirmation that executed it was under
\* way, or it was sent from another session than the preview's.
Refusable(k) ==
    LET preview == previews[commands[k].preview]
    IN  preview.lapsed \/ \E c \in DOMAIN calls : calls[c].key = k /\ calls[c].by # preview.session

\* A command that was executed without its administrator being told is still
\* in the journal, to be confirmed again under the same key, unless a
\* repetition of it was refused for one of those two reasons: a refusal is
\* taken as certain, and clears the journal.
NothingForgotten ==
    \A k \in DOMAIN commands : commands[k].done /\ k \notin shown.done =>
        journal[commands[k].by] = k \/ (k \in shown.refused /\ Refusable(k))

\* The console sends what its administrator confirmed, one at a time, and
\* remembers it until its end was seen.
ConsoleKeepsTrack == TypeOK /\ SentByItsAccount /\ OneAtATime /\ NothingForgotten
=============================================================================
