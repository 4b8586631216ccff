------------------------- MODULE BootstrapHierarchy -------------------------
(***************************************************************************)
(* tools/bootstrap-hierarchy: a run of the tool draws the keys of a NATS   *)
(* operator, its accounts and their users, signs their JWTs and writes     *)
(* keys and JWTs to files, one after the other, always to the same         *)
(* directory.  A run may fail, or die, at any file, and be repeated.       *)
(* lattice-ctl bootstrap reads two of the key files at any time.           *)
(*                                                                         *)
(* A key is what it was drawn for: the run, the operator, account or user, *)
(* and 0 for its own key or i for its i-th signing key.  A file is its     *)
(* directory, name and number; what matters of its content is the run that *)
(* wrote it, from which the definitions below give the content.            *)
(***************************************************************************)
EXTENDS Integers, SequencesExt

CONSTANT MaxRuns   \* bound: how often the tool is run

ASSUME MaxRunsAssumption == MaxRuns \in Nat \ {0}

VARIABLES
  disk,    \* disk[f]: the run that wrote file f, 0 if f is missing or torn
  run,     \* the number of runs begun
  state,   \* of the last run: "none", "writing", "done" or "failed"
  pos,     \* the file it writes next
  ctl      \* lattice-ctl: where it is, the keys it read, and history: seen is
           \* the run that was done when it began, 0 if none was

vars == <<disk, run, state, pos, ctl>>

Key(r, of, i) == <<r, of, i>>

-----------------------------------------------------------------------------
(* The claims of run r *)

\* An account's claims.  Its roles are those of its signing keys, in the order
\* in which their seeds are kept; "" is a signing key without a scope.
Account(r, name, roles) ==
  [subject |-> Key(r, name, 0),
   issuer  |-> Key(r, "operator", 1),
   signers |-> {[key |-> Key(r, name, i), role |-> roles[i]] : i \in DOMAIN roles},
   tokens  |-> {},     \* the activation tokens of its imports
   callout |-> {}]     \* its authorization: at most one record

\* The account's signing seeds (Account.SigningKeys).
Seeds(r, name, roles) == [i \in DOMAIN roles |-> Key(r, name, i)]

SysRoles    == <<"">>
SystemRoles == <<"", "host">>
LatticeRoles == <<"", "user", "rpc">>
AuthRoles   == <<"">>

createSystemAccount(r) == Account(r, "SYS", SysRoles)

createWasmCloudSystemAccount(r) == Account(r, "WASMCLOUD SYSTEM", SystemRoles)

\* Every import comes with a token that the first signing key of the exporting
\* account issues.
createLatticeAccount(r) ==
  [Account(r, "default", LatticeRoles) EXCEPT !.tokens =
     {[subject |-> Key(r, "default", 0),
       account |-> createWasmCloudSystemAccount(r).subject,
       issuer  |-> Head(Seeds(r, "WASMCLOUD SYSTEM", SystemRoles))]}]

\* The account of a callout: the writer is exempt from the callout, which may
\* place users in the allowed account.
authCallout(r, name, writer, xkey, allowed) ==
  [Account(r, name, AuthRoles) EXCEPT !.callout =
     {[xkey |-> Key(r, xkey, 0), authUsers |-> {Key(r, writer, 0)}, allowed |-> allowed]}]

\* SYS is the operator's system account once the claims are encoded again.
Operator(r) ==
  [subject |-> Key(r, "operator", 0),
   issuer  |-> Key(r, "operator", 0),
   signers |-> {Key(r, "operator", 1)},
   systemAccount |-> createSystemAccount(r).subject]

User(r, name, account, issuer, scoped) ==
  [subject |-> Key(r, name, 0), account |-> account.subject, issuer |-> issuer,
   scoped |-> scoped]

\* Variant: the first signing key is taken.
hostUserKey_First(r) == Head(Seeds(r, "WASMCLOUD SYSTEM", SystemRoles))

\* If the account has a signer for the role host, the last signing key is taken,
\* whatever its role.
hostUserKey(r) == Last(Seeds(r, "WASMCLOUD SYSTEM", SystemRoles))

hostUser(r) ==
  User(r, "wasmCloud Host", createWasmCloudSystemAccount(r), hostUserKey(r), TRUE)

-----------------------------------------------------------------------------
(* The files *)

Callouts ==
  {[account |-> "WASMCLOUD USER AUTH", xkey |-> "AUTH-xkey",
    writer |-> "WASMCLOUD USER AUTH-writer",
    registration |-> "WASMCLOUD USER AUTH-registration"],
   [account |-> "WASMCLOUD SYSTEM AUTH", xkey |-> "hostCallout-xkey",
    writer |-> "WASMCLOUD SYSTEM AUTH-writer",
    registration |-> "WASMCLOUD SYSTEM AUTH-registration"]}

Callout(name) == CHOOSE c \in Callouts : c.account = name

Roles(name) ==
  CASE name = "WASMCLOUD SYSTEM" -> SystemRoles
    [] name = "default" -> LatticeRoles
    [] name = "SYS" -> SysRoles
    [] OTHER -> AuthRoles

AccountNames == {"SYS", "WASMCLOUD SYSTEM", "default"} \cup {c.account : c \in Callouts}

\* The claims in accounts/<name>.jwt of run r.
AccountJwt(r, name) ==
  CASE name = "SYS" -> createSystemAccount(r)
    [] name = "WASMCLOUD SYSTEM" -> createWasmCloudSystemAccount(r)
    [] name = "default" -> createLatticeAccount(r)
    [] OTHER ->
         LET c == Callout(name)
         IN  authCallout(r, name, c.writer, c.xkey,
               IF name = "WASMCLOUD USER AUTH" THEN {}   \* "*": any account
               ELSE {createWasmCloudSystemAccount(r).subject})

\* The claims in users/<name>.jwt of run r, and the account the user belongs to.
UserAccount ==
  [u \in {"wasmCloud Host"} \cup {c.writer : c \in Callouts}
           \cup {c.registration : c \in Callouts} |->
     IF u = "wasmCloud Host" THEN "WASMCLOUD SYSTEM"
     ELSE (CHOOSE c \in Callouts : u \in {c.writer, c.registration}).account]

UserNames == DOMAIN UserAccount

UserJwt(r, name) ==
  IF name = "wasmCloud Host" THEN hostUser(r)
  ELSE LET a == UserAccount[name]
       IN  User(r, name, AccountJwt(r, a), Head(Seeds(r, a, AuthRoles)), FALSE)

\* resolver.conf of run r: the operator and, preloaded, its system account.
Resolver(r) == [operator |-> Operator(r), preload |-> createSystemAccount(r)]

KeyFile(name, i) == <<"keys", name, i>>
OperatorFile == <<".", "operator.jwt", 0>>
ResolverFile == <<".", "resolver.conf", 0>>
AccountFile(name) == <<"accounts", name, 0>>
UserFile(name) == <<"users", name, 0>>

\* writeToDir of an operator, an account and a user.
OperatorFiles == <<OperatorFile, KeyFile("operator", 0), KeyFile("operator", 1)>>
AccountFiles(name) ==
  <<AccountFile(name)>> \o [i \in 1 .. Len(Roles(name)) + 1 |-> KeyFile(name, i - 1)]
UserFiles(name) == <<UserFile(name), KeyFile(name, 0)>>

CalloutFiles(c) ==
  AccountFiles(c.account) \o UserFiles(c.writer) \o UserFiles(c.registration)
    \o <<KeyFile(c.xkey, 0)>>

\* Variant: the operator's files are written last.
Files_OperatorLast ==
  AccountFiles("SYS") \o <<ResolverFile>>
    \o AccountFiles("WASMCLOUD SYSTEM") \o AccountFiles("default")
    \o UserFiles("wasmCloud Host")
    \o CalloutFiles(Callout("WASMCLOUD USER AUTH"))
    \o CalloutFiles(Callout("WASMCLOUD SYSTEM AUTH")) \o OperatorFiles

\* The files of a run, in the order in which Bootstrap writes them.
Files ==
  AccountFiles("SYS") \o OperatorFiles \o <<ResolverFile>>
    \o AccountFiles("WASMCLOUD SYSTEM") \o AccountFiles("default")
    \o UserFiles("wasmCloud Host")
    \o CalloutFiles(Callout("WASMCLOUD USER AUTH"))
    \o CalloutFiles(Callout("WASMCLOUD SYSTEM AUTH"))

-----------------------------------------------------------------------------
(* The tool *)

Init ==
  /\ disk = [f \in ToSet(Files) |-> 0]
  /\ run = 0
  /\ state = "none"
  /\ pos = 1
  /\ ctl = [pc |-> "readSystem", system |-> 0, operator |-> 0, seen |-> 0]

\* A run begins with new keys.  Nothing looks at what earlier runs left.
Bootstrap ==
  /\ state # "writing"
  /\ run < MaxRuns
  /\ run' = run + 1
  /\ state' = "writing"
  /\ pos' = 1
  /\ UNCHANGED <<disk, ctl>>

\* Variant: the last file is not noticed.
WriteFile_NeverDone ==
  /\ state = "writing"
  /\ disk[Files[pos]] = 0
  /\ disk' = [disk EXCEPT ![Files[pos]] = run]
  /\ pos' = pos + 1
  /\ UNCHANGED <<run, state, ctl>>

\* os.WriteFile empties the file first if it is there.
TruncateFile ==
  /\ state = "writing"
  /\ disk[Files[pos]] # 0
  /\ disk' = [disk EXCEPT ![Files[pos]] = 0]
  /\ UNCHANGED <<run, state, pos, ctl>>

\* Then it fills it.
WriteFile ==
  /\ state = "writing"
  /\ disk[Files[pos]] = 0
  /\ disk' = [disk EXCEPT ![Files[pos]] = run]
  /\ pos' = pos + 1
  /\ state' = IF pos = Len(Files) THEN "done" ELSE "writing"
  /\ UNCHANGED <<run, ctl>>

\* Variant: the error of a write is dropped.
BootstrapFails_Ignored ==
  /\ state = "writing"
  /\ disk' = [disk EXCEPT ![Files[pos]] = 0]
  /\ pos' = pos + 1
  /\ state' = IF pos = Len(Files) THEN "done" ELSE "writing"
  /\ UNCHANGED <<run, ctl>>

\* Any error ends the run, or it dies; the file in hand may be left torn.
BootstrapFails ==
  /\ state = "writing"
  /\ state' = "failed"
  /\ disk' \in {disk, [disk EXCEPT ![Files[pos]] = 0]}
  /\ UNCHANGED <<run, pos, ctl>>

(* lattice-ctl bootstrap *)

\* Reads keys/WASMCLOUD SYSTEM.nk.
CtlReadSystem ==
  /\ ctl.pc = "readSystem"
  /\ disk[KeyFile("WASMCLOUD SYSTEM", 0)] # 0
  /\ ctl' = [ctl EXCEPT !.pc = "readOperator",
                        !.system = disk[KeyFile("WASMCLOUD SYSTEM", 0)],
                        !.seen = IF state = "done" THEN run ELSE 0]
  /\ UNCHANGED <<disk, run, state, pos>>

\* Reads keys/operator-signing.nk.
CtlReadOperator ==
  /\ ctl.pc = "readOperator"
  /\ disk[KeyFile("operator", 1)] # 0
  /\ ctl' = [ctl EXCEPT !.pc = "done", !.operator = disk[KeyFile("operator", 1)]]
  /\ UNCHANGED <<disk, run, state, pos>>

\* A file that is missing or does not parse panics.  (The code parses both after
\* it has read both, but before it does anything else.)
CtlPanics ==
  /\ \/ ctl.pc = "readSystem" /\ disk[KeyFile("WASMCLOUD SYSTEM", 0)] = 0
     \/ ctl.pc = "readOperator" /\ disk[KeyFile("operator", 1)] = 0
  /\ ctl' = [ctl EXCEPT !.pc = "panicked"]
  /\ UNCHANGED <<disk, run, state, pos>>

Next ==
  \/ Bootstrap \/ TruncateFile \/ WriteFile \/ BootstrapFails
  \/ CtlReadSystem \/ CtlReadOperator \/ CtlPanics

Spec == Init /\ [][Next]_vars

-----------------------------------------------------------------------------
\* The types of the variables.
TypeOK ==
  /\ disk \in [ToSet(Files) -> 0 .. MaxRuns]
  /\ run \in 0 .. MaxRuns
  /\ state \in {"none", "writing", "done", "failed"}
  /\ pos \in 1 .. Len(Files) + 1
  /\ state = "writing" => pos <= Len(Files)
  /\ ctl \in [pc : {"readSystem", "readOperator", "done", "panicked"},
              system : 0 .. MaxRuns, operator : 0 .. MaxRuns, seen : 0 .. MaxRuns]

OperatorOnDisk == Operator(disk[OperatorFile])
AccountOnDisk(a) == AccountJwt(disk[AccountFile(a)], a)
UserOnDisk(u) == UserJwt(disk[UserFile(u)], u)
SeedOnDisk(name, i) == Key(disk[KeyFile(name, i)], name, i)

\* Accounts are signed by a signing key of the operator, and only by one, since
\* the operator insists on it; users by a signer of their account, a scoped user
\* by a signer with a scope and any other by one without; the tokens of imports
\* by a signer of the account that exports.  The resolver's operator and its
\* preloaded system account are those of the files.
TrustChain ==
  /\ \A a \in AccountNames : AccountOnDisk(a).issuer \in OperatorOnDisk.signers
  /\ OperatorOnDisk.systemAccount = AccountOnDisk("SYS").subject
  /\ \A u \in UserNames :
       LET user == UserOnDisk(u)
           account == AccountOnDisk(UserAccount[u])
       IN  /\ user.account = account.subject
           /\ \E s \in account.signers :
                s.key = user.issuer /\ (user.scoped <=> s.role # "")
  /\ \A a \in AccountNames : \A t \in AccountOnDisk(a).tokens :
       \E b \in AccountNames :
         /\ t.account = AccountOnDisk(b).subject
         /\ t.issuer \in {s.key : s \in AccountOnDisk(b).signers}
  /\ Resolver(disk[ResolverFile]) =
       [operator |-> OperatorOnDisk, preload |-> AccountOnDisk("SYS")]

\* Each seed is the one whose public key is in the JWT; the xkey of a callout is
\* the one its account names, and its writer is exempt from it.
SeedsMatch ==
  /\ SeedOnDisk("operator", 0) = OperatorOnDisk.subject
  /\ SeedOnDisk("operator", 1) \in OperatorOnDisk.signers
  /\ \A a \in AccountNames :
       /\ SeedOnDisk(a, 0) = AccountOnDisk(a).subject
       /\ \A i \in DOMAIN Roles(a) :
            SeedOnDisk(a, i) \in {s.key : s \in AccountOnDisk(a).signers}
  /\ \A u \in UserNames : SeedOnDisk(u, 0) = UserOnDisk(u).subject
  /\ \A c \in Callouts : \E auth \in AccountOnDisk(c.account).callout :
       /\ auth.xkey = SeedOnDisk(c.xkey, 0)
       /\ auth.authUsers = {UserOnDisk(c.writer).subject}
       /\ auth.allowed \subseteq {AccountOnDisk("WASMCLOUD SYSTEM").subject}

\* When a run returns without an error, what is on disk is one hierarchy that
\* verifies, whatever earlier runs left there.
DoneVerifies ==
  state = "done" => (\A f \in DOMAIN disk : disk[f] # 0) /\ TrustChain /\ SeedsMatch

\* A run writes the operator's key before the system account's and lattice-ctl
\* reads them in the opposite order: the operator key it gets is never the older
\* one, and both are of one hierarchy if no run began since one was done.
CtlReadsForward ==
  ctl.pc = "done" =>
    /\ ctl.operator >= ctl.system
    /\ (ctl.seen = run /\ run # 0) => (ctl.operator = run /\ ctl.system = run)

=============================================================================
