-------------------------- MODULE MCHeadquarters --------------------------
(***************************************************************************)
(* Headquarters on small instances, for TLC: commands with a preview, the  *)
(* sign-in of administrators and its recovery, and the refund page.        *)
(*                                                                         *)
(* As in MCTrade the components share no variable, and a behaviour moves   *)
(* the one part chosen in its initial state.  The parts of a component     *)
(* share its instance, and each bounds what its steps may reach.           *)
(***************************************************************************)
EXTENDS HighRiskCommands, Sequences

CONSTANTS
  Parts,   \* the parts to explore
  a, b,    \* interchangeable requests or administrators
  Failures, Changes, LastStep, PrintedCodes, FactorCount, ChallengeCount, SessionCount, GrantCount, \* AdminSessions
  Operators, OwnChanges, RecoveryCount, Disabled,             \* OfflineRecovery
  Staff, PageSessions, PageTokens, PagePreviews, PageCommands, PageCalls  \* AdminRefundConsole

VARIABLES
  part,                                                              \* the part that moves
  version, factor, unused, limit, challenge, session, grant, approved, uses,  \* AdminSessions
  account, active, recovery,                                         \* OfflineRecovery
  page, dialog, journal, calls, sessions, previews, commands, shown  \* AdminRefundConsole

Account == INSTANCE AdminSessions WITH
  MaxFailures <- Failures, MaxVersion <- Changes, MaxStep <- LastStep, MaxCodes <- PrintedCodes,
  MaxFactors <- FactorCount, MaxChallenges <- ChallengeCount, MaxSessions <- SessionCount,
  MaxGrants <- GrantCount

Recovery == INSTANCE OfflineRecovery WITH
  Admins <- Operators, MaxVersion <- OwnChanges, MaxRecoveries <- RecoveryCount,
  MaxInactive <- Disabled, version <- account

Console == INSTANCE AdminRefundConsole WITH
  Admins <- Staff, MaxSessions <- PageSessions, MaxTokens <- PageTokens,
  MaxPreviews <- PagePreviews, MaxCommands <- PageCommands, MaxCalls <- PageCalls

ASSUME HeadquartersAssumption ==
  /\ Account!AdminSessionsAssumption
  /\ Recovery!OfflineRecoveryAssumption
  /\ Console!AdminRefundConsoleAssumption

\* Requests are interchangeable, and so are administrators.
People == Permutations({a, b})

--------------------------------
accountVars == <<version, factor, unused, limit, challenge, session, grant, approved, uses>>
recoveryVars == <<account, active, recovery>>
consoleVars == <<page, dialog, journal, calls, sessions, previews, commands, shown>>
headquartersVars == <<part, vars, accountVars, recoveryVars, consoleVars>>

HeadquartersInit ==
  /\ part \in Parts
  /\ Init /\ (part # "commands" => \A t \in Tokens : preview[t] = NoPreview)
  /\ Account!Init
  /\ Recovery!Init
  /\ Console!Init

CommandStep ==
  part = "commands" /\ Next /\ UNCHANGED <<part, accountVars, recoveryVars, consoleVars>>

\* No more versions, steps, recovery codes and rows of each table than these.
Reaches(versions, last, codes, factors, challenges, open, grants) ==
  /\ version' <= versions
  /\ \A f \in Account!Factors :
       /\ factor'[f].last <= last
       /\ unused'[f] \subseteq LastStep + 1 .. LastStep + codes
       /\ f > factors => factor'[f] = Account!NoFactor
  /\ \A k \in Account!Challenges : k > challenges => challenge'[k] = Account!NoChallenge
  /\ \A s \in Account!Sessions : s > open => session'[s] = Account!NoSession
  /\ \A g \in Account!Grants : g > grants => grant'[g] = Account!NoGrant

\* Passwords, tokens and logouts.
LoginStep ==
  /\ part = "login"
  /\ Account!SignIn \/ Account!Leave \/ Account!Change
  /\ Reaches(3, 3, 1, 1, 3, 4, 0)
  /\ UNCHANGED <<part, vars, recoveryVars, consoleVars>>

\* Recovery codes and the reset of the second factor.
ResetStep ==
  /\ part = "reset"
  /\ Account!SignIn \/ Account!Recover \/ Account!Reset
  /\ Reaches(3, 2, 3, 2, 4, 3, 0)
  /\ UNCHANGED <<part, vars, recoveryVars, consoleVars>>

\* Reauthentication for a payout account.
PayoutStep ==
  /\ part = "payout"
  /\ Account!SignIn \/ Account!Reauthenticate \/ Account!Payout \/ Account!Change
  /\ Reaches(2, 3, 1, 1, 3, 2, 1)
  /\ UNCHANGED <<part, vars, recoveryVars, consoleVars>>

\* Of four administrators and one recovery; then of two recoveries, in which
\* administrator "d" has no part.
RecoveryStep ==
  /\ Recovery!Next
  /\ \/ part = "recovery" /\ \A r \in Recovery!Recoveries : r > 1 => recovery'[r] = Recovery!NoRecovery
     \/ /\ part = "recoveries"
        /\ account'["d"] = 1 /\ "d" \in active'
        /\ \A r \in Recovery!Recoveries : LET row == recovery'[r] IN
             "d" \notin row.target \union row.by \union row.for \union row.against
  /\ UNCHANGED <<part, vars, accountVars, consoleVars>>

\* The page signs out and another administrator in while a call is out.
ConsoleStep ==
  /\ part = "console" /\ Console!Next
  /\ Len(previews') <= 1 /\ Len(commands') <= 1 /\ Len(calls') <= 2
  /\ UNCHANGED <<part, vars, accountVars, recoveryVars>>

\* One session sends, repeats and confirms again.
OneSessionStep ==
  /\ part = "oneSession" /\ Console!Next
  /\ Len(sessions') <= 1 /\ \A s \in DOMAIN sessions' : sessions'[s].owner = "p"
  /\ UNCHANGED <<part, vars, accountVars, recoveryVars>>

HeadquartersNext ==
  \/ CommandStep
  \/ LoginStep \/ ResetStep \/ PayoutStep
  \/ RecoveryStep
  \/ ConsoleStep \/ OneSessionStep

HeadquartersSpec == HeadquartersInit /\ [][HeadquartersNext]_headquartersVars

--------------------------------
\* AdminSessions and OfflineRecovery: what an administrator can sign in
\* with is what the account allows now, and it has one open recovery.
SignInsAreSound ==
  Account!SignInsAreSound /\ Recovery!TypeOK /\ Recovery!OneOpenPerTarget

\* AdminSessions and OfflineRecovery: credentials are replaced, sessions
\* continued and payout accounts revealed only by those who may.
ActsWithAuthority ==
  [][Account!KeepsFamilyEnded /\ Account!RevealsToTheAsker /\ Recovery!RecoversRightly]_headquartersVars

\* AdminRefundConsole: a confirmation is sent by the account that made it,
\* one at a time, and none that was executed is forgotten before its end was
\* seen, but for one that was refused when repeated.
ConsoleKeepsTrack == Console!ConsoleKeepsTrack
=============================================================================
