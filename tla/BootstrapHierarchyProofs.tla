---------------------- MODULE BootstrapHierarchyProofs ----------------------
(***************************************************************************)
(* Proofs about BootstrapHierarchy for any number of runs, each of which   *)
(* may fail at any file.                                                   *)
(***************************************************************************)
EXTENDS BootstrapHierarchy, TLAPS

-----------------------------------------------------------------------------
(* Sequences of files *)

LEMMA ConcatElements ==
  ASSUME NEW S, NEW s \in Seq(S), NEW t \in Seq(S)
  PROVE  /\ s \o t \in Seq(S)
         /\ ToSet(s) \subseteq ToSet(s \o t)
         /\ ToSet(t) \subseteq ToSet(s \o t)
         /\ ToSet(s \o t) \subseteq ToSet(s) \cup ToSet(t)
<1>1. /\ s \o t \in Seq(S)
      /\ Len(s) \in Nat /\ Len(t) \in Nat
      /\ DOMAIN s = 1 .. Len(s) /\ DOMAIN t = 1 .. Len(t)
      /\ DOMAIN (s \o t) = 1 .. Len(s) + Len(t)
  OBVIOUS
<1>2. ASSUME NEW i \in DOMAIN s PROVE s[i] \in ToSet(s \o t)
  <2>1. i \in DOMAIN (s \o t) /\ (s \o t)[i] = s[i]
    BY <1>1, <1>2
  <2>. QED  BY <2>1 DEF ToSet
<1>3. ASSUME NEW i \in DOMAIN t PROVE t[i] \in ToSet(s \o t)
  <2>1. i + Len(s) \in DOMAIN (s \o t) /\ (s \o t)[i + Len(s)] = t[i]
    BY <1>1, <1>3
  <2>. QED  BY <2>1 DEF ToSet
<1>4. ASSUME NEW i \in DOMAIN (s \o t) PROVE (s \o t)[i] \in ToSet(s) \cup ToSet(t)
  <2>1. CASE i \in DOMAIN s
    BY <2>1 DEF ToSet
  <2>2. CASE i \notin DOMAIN s
    <3>1. i - Len(s) \in DOMAIN t /\ (s \o t)[i] = t[i - Len(s)]
      BY <1>1, <1>4, <2>2
    <3>. QED  BY <3>1 DEF ToSet
  <2>. QED  BY <2>1, <2>2
<1>. QED  BY <1>1, <1>2, <1>3, <1>4 DEF ToSet

\* Wherever y is in s, x is before it.
Before(s, x, y) == \A k \in DOMAIN s : s[k] = y => \E j \in 1 .. k - 1 : s[j] = x

LEMMA ConcatBefore ==
  ASSUME NEW S, NEW s \in Seq(S), NEW t \in Seq(S), NEW x \in ToSet(s), NEW y,
         Before(s, x, y)
  PROVE  Before(s \o t, x, y)
<1>1. /\ Len(s) \in Nat /\ Len(t) \in Nat
      /\ DOMAIN s = 1 .. Len(s)
      /\ DOMAIN (s \o t) = 1 .. Len(s) + Len(t)
      /\ \A i \in DOMAIN s : (s \o t)[i] = s[i]
  OBVIOUS
<1>2. PICK i \in DOMAIN s : s[i] = x
  BY DEF ToSet
<1>3. ASSUME NEW k \in DOMAIN (s \o t), (s \o t)[k] = y
      PROVE  \E j \in 1 .. k - 1 : (s \o t)[j] = x
  <2>1. CASE k \in DOMAIN s
    <3>1. PICK j \in 1 .. k - 1 : s[j] = x
      BY <1>1, <1>3, <2>1 DEF Before
    <3>2. j \in DOMAIN s
      BY <1>1, <2>1
    <3>. QED  BY <1>1, <3>1, <3>2
  <2>2. CASE k \notin DOMAIN s
    <3>1. i \in 1 .. k - 1
      BY <1>1, <1>2, <1>3, <2>2
    <3>. QED  BY <1>1, <1>2, <3>1
  <2>. QED  BY <2>1, <2>2
<1>. QED  BY <1>3 DEF Before

-----------------------------------------------------------------------------
(* The files of a run *)

UserAuth ==
  [account |-> "WASMCLOUD USER AUTH", xkey |-> "AUTH-xkey",
   writer |-> "WASMCLOUD USER AUTH-writer",
   registration |-> "WASMCLOUD USER AUTH-registration"]
SystemAuth ==
  [account |-> "WASMCLOUD SYSTEM AUTH", xkey |-> "hostCallout-xkey",
   writer |-> "WASMCLOUD SYSTEM AUTH-writer",
   registration |-> "WASMCLOUD SYSTEM AUTH-registration"]

LEMMA TwoCallouts ==
  /\ Callouts = {UserAuth, SystemAuth}
  /\ Callout("WASMCLOUD USER AUTH") = UserAuth
  /\ Callout("WASMCLOUD SYSTEM AUTH") = SystemAuth
<1>1. Callouts = {UserAuth, SystemAuth}
  BY DEF Callouts, UserAuth, SystemAuth
<1>2. UserAuth.account = "WASMCLOUD USER AUTH" /\ SystemAuth.account = "WASMCLOUD SYSTEM AUTH"
  BY DEF UserAuth, SystemAuth
<1>. QED  BY <1>1, <1>2 DEF Callout

LEMMA ClaimedNames ==
  /\ AccountNames = {"SYS", "WASMCLOUD SYSTEM", "default", UserAuth.account, SystemAuth.account}
  /\ UserNames = {"wasmCloud Host", UserAuth.writer, UserAuth.registration,
                  SystemAuth.writer, SystemAuth.registration}
BY TwoCallouts DEF AccountNames, UserNames, UserAccount

Subjects ==
  {"operator", "operator.jwt", "resolver.conf"}
    \cup AccountNames \cup UserNames \cup {c.xkey : c \in Callouts}

File == {".", "accounts", "users", "keys"} \X Subjects \X Nat

LEMMA TableSeq ==
  ASSUME NEW S, NEW n \in Nat, NEW s \in [1 .. n -> S]
  PROVE  s \in Seq(S) /\ Len(s) = n
OBVIOUS

LEMMA RolesLength ==
  ASSUME NEW name
  PROVE  \E n \in {1, 2, 3} : Len(Roles(name)) = n
<1>1. Len(SysRoles) = 1
  BY DEF SysRoles
<1>2. Len(SystemRoles) = 2
  BY DEF SystemRoles
<1>3. Len(LatticeRoles) = 3
  BY DEF LatticeRoles
<1>4. Len(AuthRoles) = 1
  BY DEF AuthRoles
<1>5. Roles(name) \in {SystemRoles, LatticeRoles, SysRoles, AuthRoles}
  BY DEF Roles
<1>. QED  BY <1>1, <1>2, <1>3, <1>4, <1>5, Zenon

LEMMA AccountFilesHas ==
  ASSUME NEW name \in Subjects
  PROVE  /\ AccountFiles(name) \in Seq(File)
         /\ AccountFile(name) \in ToSet(AccountFiles(name))
         /\ \A i \in 0 .. Len(Roles(name)) : KeyFile(name, i) \in ToSet(AccountFiles(name))
         /\ \A f \in ToSet(AccountFiles(name)) : f[2] = name
<1>1. PICK n \in {1, 2, 3} : Len(Roles(name)) = n
  BY RolesLength, Zenon
<1>. DEFINE keys == [i \in 1 .. n + 1 |-> KeyFile(name, i - 1)]
<1>2. \A i \in 1 .. n + 1 : KeyFile(name, i - 1) \in File
  BY DEF KeyFile, File
<1>3. keys \in [1 .. n + 1 -> File]
  BY <1>2
<1>4. keys \in Seq(File)
  <2>. HIDE DEF keys
  <2>. QED  BY <1>3, TableSeq
<1>5. <<AccountFile(name)>> \in Seq(File) /\ AccountFile(name) \in ToSet(<<AccountFile(name)>>)
  BY DEF AccountFile, File, ToSet
<1>6. ASSUME NEW i \in 0 .. n PROVE KeyFile(name, i) \in ToSet(keys)
  <2>1. i + 1 \in 1 .. n + 1 /\ (i + 1) - 1 = i
    OBVIOUS
  <2>. QED  BY <2>1 DEF ToSet
<1>8. \A f \in ToSet(keys) \cup ToSet(<<AccountFile(name)>>) : f[2] = name
  BY <1>3 DEF ToSet, KeyFile, AccountFile
<1>7. AccountFiles(name) = <<AccountFile(name)>> \o keys
  BY <1>1 DEF AccountFiles
<1>. HIDE DEF keys
<1>. QED  BY <1>1, <1>4, <1>5, <1>6, <1>7, <1>8, ConcatElements

LEMMA UserFilesHas ==
  ASSUME NEW name \in Subjects
  PROVE  /\ UserFiles(name) \in Seq(File)
         /\ UserFile(name) \in ToSet(UserFiles(name))
         /\ KeyFile(name, 0) \in ToSet(UserFiles(name))
<1>1. UserFile(name) \in File /\ KeyFile(name, 0) \in File
  BY DEF UserFile, KeyFile, File
<1>. QED  BY <1>1 DEF UserFiles, ToSet

LEMMA CalloutFilesHas ==
  ASSUME NEW c \in Callouts
  PROVE  /\ CalloutFiles(c) \in Seq(File)
         /\ ToSet(AccountFiles(c.account)) \subseteq ToSet(CalloutFiles(c))
         /\ ToSet(UserFiles(c.writer)) \subseteq ToSet(CalloutFiles(c))
         /\ ToSet(UserFiles(c.registration)) \subseteq ToSet(CalloutFiles(c))
         /\ KeyFile(c.xkey, 0) \in ToSet(CalloutFiles(c))
<1>1. /\ c.account \in Subjects /\ c.writer \in Subjects
      /\ c.registration \in Subjects /\ c.xkey \in Subjects
  BY ClaimedNames, TwoCallouts DEF Subjects
<1>. DEFINE a == AccountFiles(c.account)
            w == UserFiles(c.writer)
            r == UserFiles(c.registration)
            x == <<KeyFile(c.xkey, 0)>>
<1>2. a \in Seq(File) /\ w \in Seq(File) /\ r \in Seq(File)
  BY <1>1, AccountFilesHas, UserFilesHas
<1>3. x \in Seq(File) /\ KeyFile(c.xkey, 0) \in ToSet(x)
  BY <1>1 DEF KeyFile, File, ToSet
<1>4. CalloutFiles(c) = a \o w \o r \o x
  BY DEF CalloutFiles
<1>. HIDE DEF a, w, r, x
<1>5. a \o w \in Seq(File) /\ ToSet(a) \subseteq ToSet(a \o w) /\ ToSet(w) \subseteq ToSet(a \o w)
  BY <1>2, ConcatElements
<1>6. /\ a \o w \o r \in Seq(File)
      /\ ToSet(a \o w) \subseteq ToSet(a \o w \o r) /\ ToSet(r) \subseteq ToSet(a \o w \o r)
  BY <1>2, <1>5, ConcatElements
<1>7. /\ a \o w \o r \o x \in Seq(File)
      /\ ToSet(a \o w \o r) \subseteq ToSet(a \o w \o r \o x)
      /\ ToSet(x) \subseteq ToSet(a \o w \o r \o x)
  BY <1>3, <1>6, ConcatElements
<1>8. /\ CalloutFiles(c) \in Seq(File)
      /\ ToSet(a) \cup ToSet(w) \cup ToSet(r) \cup ToSet(x) \subseteq ToSet(CalloutFiles(c))
  BY <1>4, <1>5, <1>6, <1>7
<1>. QED  BY <1>3, <1>8 DEF a, w, r

SystemKey == KeyFile("WASMCLOUD SYSTEM", 0)
OperatorKey == KeyFile("operator", 1)

LEMMA OperatorFilesHas ==
  /\ OperatorFiles \in Seq(File)
  /\ {OperatorFile, KeyFile("operator", 0), OperatorKey} \subseteq ToSet(OperatorFiles)
  /\ SystemKey \notin ToSet(OperatorFiles)
<1>1. OperatorFile \in File /\ KeyFile("operator", 0) \in File /\ OperatorKey \in File
  BY DEF OperatorFile, OperatorKey, KeyFile, File, Subjects
<1>2. OperatorFiles \in Seq(File) /\ ToSet(OperatorFiles) = {OperatorFile, KeyFile("operator", 0), OperatorKey}
  BY <1>1 DEF OperatorFiles, OperatorKey, ToSet
<1>3. SystemKey[2] = "WASMCLOUD SYSTEM" /\ OperatorFile[2] = "operator.jwt"
      /\ KeyFile("operator", 0)[2] = "operator" /\ OperatorKey[2] = "operator"
  BY DEF SystemKey, OperatorFile, KeyFile, OperatorKey
<1>. QED  BY <1>2, <1>3

\* Every file that the claims speak of is among those a run writes.
LEMMA FilesHas ==
  /\ Files \in Seq(File)
  /\ {OperatorFile, ResolverFile, KeyFile("operator", 0), OperatorKey} \subseteq ToSet(Files)
  /\ \A a \in AccountNames :
       /\ AccountFile(a) \in ToSet(Files)
       /\ \A i \in 0 .. Len(Roles(a)) : KeyFile(a, i) \in ToSet(Files)
  /\ \A u \in UserNames : UserFile(u) \in ToSet(Files) /\ KeyFile(u, 0) \in ToSet(Files)
  /\ \A c \in Callouts : KeyFile(c.xkey, 0) \in ToSet(Files)
  /\ Before(Files, OperatorKey, SystemKey)
<1>. DEFINE s1 == AccountFiles("SYS")
            s2 == OperatorFiles
            s3 == <<ResolverFile>>
            s4 == AccountFiles("WASMCLOUD SYSTEM")
            s5 == AccountFiles("default")
            s6 == UserFiles("wasmCloud Host")
            s7 == CalloutFiles(UserAuth)
            s8 == CalloutFiles(SystemAuth)
            F == ToSet(Files)
<1>1. Files = s1 \o s2 \o s3 \o s4 \o s5 \o s6 \o s7 \o s8
  BY TwoCallouts DEF Files
<1>2. /\ s1 \in Seq(File) /\ s4 \in Seq(File) /\ s5 \in Seq(File)
      /\ s6 \in Seq(File)
  <2>1. {"SYS", "WASMCLOUD SYSTEM", "default", "wasmCloud Host"} \subseteq Subjects
    BY ClaimedNames DEF Subjects
  <2>. QED  BY <2>1, AccountFilesHas, UserFilesHas
<1>3. /\ s2 \in Seq(File) /\ OperatorKey \in ToSet(s2) /\ SystemKey \notin ToSet(s2)
  BY OperatorFilesHas
<1>4. s7 \in Seq(File) /\ s8 \in Seq(File)
  BY CalloutFilesHas, TwoCallouts
<1>5. /\ s3 \in Seq(File) /\ ToSet(s3) = {ResolverFile} /\ SystemKey # ResolverFile
  <2>1. ResolverFile \in File
    BY DEF ResolverFile, File, Subjects
  <2>2. SystemKey[2] # ResolverFile[2]
    BY DEF SystemKey, ResolverFile, KeyFile
  <2>. QED  BY <2>1, <2>2 DEF ToSet
<1>6. SystemKey \notin ToSet(s1)
  <2>1. SystemKey[2] # "SYS"
    BY DEF SystemKey, KeyFile
  <2>2. "SYS" \in Subjects
    BY ClaimedNames DEF Subjects
  <2>. QED  BY <2>1, <2>2, AccountFilesHas
<1>7. s1 \o s2 \in Seq(File) /\ ToSet(s1) \cup ToSet(s2) = ToSet(s1 \o s2)
  <2>. HIDE DEF s1, s2
  <2>. QED  BY <1>2, <1>3, ConcatElements
<1>8. s1 \o s2 \o s3 \in Seq(File) /\ ToSet(s1 \o s2) \cup ToSet(s3) = ToSet(s1 \o s2 \o s3)
  <2>1. s3 \in Seq(File)
    BY <1>5
  <2>. HIDE DEF s1, s2, s3
  <2>. QED  BY <1>7, <2>1, ConcatElements
<1>9. /\ OperatorKey \in ToSet(s1 \o s2 \o s3)
      /\ Before(s1 \o s2 \o s3, OperatorKey, SystemKey)
  <2>1. SystemKey \notin ToSet(s1 \o s2 \o s3)
    BY <1>3, <1>5, <1>6, <1>7, <1>8
  <2>. HIDE DEF s1, s2, s3
  <2>. QED  BY <1>3, <1>7, <1>8, <2>1 DEF Before, ToSet
<1>. DEFINE Good(s, t) == /\ s \o t \in Seq(File)
                          /\ ToSet(s) \cup ToSet(t) \subseteq ToSet(s \o t)
                          /\ OperatorKey \in ToSet(s \o t)
                          /\ Before(s \o t, OperatorKey, SystemKey)
<1>10. ASSUME NEW s \in Seq(File), NEW t \in Seq(File), OperatorKey \in ToSet(s),
              Before(s, OperatorKey, SystemKey)
       PROVE  Good(s, t)
  BY <1>10, ConcatElements, ConcatBefore
<1>. HIDE DEF s1, s2, s3, s4, s5, s6, s7, s8
<1>11. Good(s1 \o s2 \o s3, s4)
  BY <1>2, <1>8, <1>9, <1>10
<1>12. Good(s1 \o s2 \o s3 \o s4, s5)
  BY <1>2, <1>10, <1>11
<1>13. Good(s1 \o s2 \o s3 \o s4 \o s5, s6)
  BY <1>2, <1>10, <1>12
<1>14. Good(s1 \o s2 \o s3 \o s4 \o s5 \o s6, s7)
  BY <1>4, <1>10, <1>13
<1>15. Good(s1 \o s2 \o s3 \o s4 \o s5 \o s6 \o s7, s8)
  BY <1>4, <1>10, <1>14
<1>16. /\ ToSet(s1) \cup ToSet(s2) \cup ToSet(s3) \cup ToSet(s4) \subseteq F
       /\ ToSet(s5) \cup ToSet(s6) \cup ToSet(s7) \cup ToSet(s8) \subseteq F
       /\ Files \in Seq(File) /\ Before(Files, OperatorKey, SystemKey)
  BY <1>1, <1>7, <1>8, <1>11, <1>12, <1>13, <1>14, <1>15
<1>. HIDE DEF F, Good
<1>17. {OperatorFile, ResolverFile, KeyFile("operator", 0), OperatorKey} \subseteq F
  BY <1>5, <1>16, OperatorFilesHas DEF s2
<1>18. ASSUME NEW a \in AccountNames PROVE ToSet(AccountFiles(a)) \subseteq F /\ a \in Subjects
  <2>1. \A c \in {UserAuth, SystemAuth} : ToSet(AccountFiles(c.account)) \subseteq F
    BY <1>16, CalloutFilesHas, TwoCallouts DEF s7, s8
  <2>. QED  BY <1>16, <1>18, <2>1, ClaimedNames DEF s1, s4, s5, Subjects
<1>19. ASSUME NEW u \in UserNames PROVE ToSet(UserFiles(u)) \subseteq F /\ u \in Subjects
  <2>1. \A c \in {UserAuth, SystemAuth} :
          ToSet(UserFiles(c.writer)) \cup ToSet(UserFiles(c.registration)) \subseteq F
    BY <1>16, CalloutFilesHas, TwoCallouts DEF s7, s8
  <2>. QED  BY <1>16, <1>19, <2>1, ClaimedNames DEF s6, Subjects
<1>20. \A c \in Callouts : KeyFile(c.xkey, 0) \in F
  BY <1>16, CalloutFilesHas, TwoCallouts DEF s7, s8
<1>. QED
  BY <1>16, <1>17, <1>18, <1>19, <1>20, AccountFilesHas, UserFilesHas DEF F

-----------------------------------------------------------------------------
(* The claims of a run *)

LEMMA RoleTable ==
  /\ \A a \in AccountNames : 1 \in DOMAIN Roles(a) /\ Roles(a)[1] = ""
  /\ DOMAIN AuthRoles = 1 .. 1 /\ DOMAIN SystemRoles = 1 .. 2
  /\ Roles("WASMCLOUD SYSTEM") = SystemRoles /\ SystemRoles[2] = "host"
  /\ \A c \in Callouts : Roles(c.account) = AuthRoles
  /\ \A a \in AccountNames : DOMAIN Roles(a) \subseteq 1 .. Len(Roles(a))
<1>1. /\ DOMAIN SysRoles = 1 .. 1 /\ SysRoles[1] = "" /\ Len(SysRoles) = 1
      /\ DOMAIN AuthRoles = 1 .. 1 /\ AuthRoles[1] = "" /\ Len(AuthRoles) = 1
  BY DEF SysRoles, AuthRoles
<1>2. /\ DOMAIN SystemRoles = 1 .. 2 /\ SystemRoles[1] = "" /\ SystemRoles[2] = "host"
      /\ Len(SystemRoles) = 2
  BY DEF SystemRoles
<1>3. DOMAIN LatticeRoles = 1 .. 3 /\ LatticeRoles[1] = "" /\ Len(LatticeRoles) = 3
  BY DEF LatticeRoles
<1>4. Roles("WASMCLOUD SYSTEM") = SystemRoles /\ \A c \in Callouts : Roles(c.account) = AuthRoles
  <2>1. UserAuth.account = "WASMCLOUD USER AUTH" /\ SystemAuth.account = "WASMCLOUD SYSTEM AUTH"
    BY DEF UserAuth, SystemAuth
  <2>2. /\ Roles("WASMCLOUD SYSTEM") = SystemRoles
        /\ Roles("WASMCLOUD USER AUTH") = AuthRoles
        /\ Roles("WASMCLOUD SYSTEM AUTH") = AuthRoles
    BY DEF Roles
  <2>. QED  BY <2>1, <2>2, TwoCallouts, Zenon
<1>5. ASSUME NEW a \in AccountNames
      PROVE  Roles(a) \in {SystemRoles, LatticeRoles, SysRoles, AuthRoles}
  BY DEF Roles
<1>6. /\ 1 \in 1 .. 1 /\ 1 \in 1 .. 2 /\ 1 \in 1 .. 3
  OBVIOUS
<1>. QED  BY <1>1, <1>2, <1>3, <1>4, <1>5, <1>6, Zenon

\* The claims of each account of run r carry the keys whose seeds are kept.
LEMMA AccountClaims ==
  ASSUME NEW r, NEW a \in AccountNames
  PROVE  /\ AccountJwt(r, a).subject = Key(r, a, 0)
         /\ AccountJwt(r, a).issuer = Key(r, "operator", 1)
         /\ AccountJwt(r, a).signers =
              {[key |-> Key(r, a, i), role |-> Roles(a)[i]] : i \in DOMAIN Roles(a)}
<1>1. CASE a \in {"SYS", "WASMCLOUD SYSTEM", "default"}
  BY <1>1 DEF AccountJwt, createSystemAccount, createWasmCloudSystemAccount,
              createLatticeAccount, Account, Roles
<1>2. CASE a \in {UserAuth.account, SystemAuth.account}
  BY <1>2 DEF AccountJwt, authCallout, Account, Roles, UserAuth, SystemAuth
<1>. QED  BY <1>1, <1>2, ClaimedNames

LEMMA AccountTokens ==
  ASSUME NEW r, NEW a \in AccountNames, NEW t \in AccountJwt(r, a).tokens
  PROVE  /\ t.account = Key(r, "WASMCLOUD SYSTEM", 0)
         /\ t.issuer = Head(Seeds(r, "WASMCLOUD SYSTEM", SystemRoles))
<1>1. CASE a = "default"
  <2>. DEFINE signer == Head(Seeds(r, "WASMCLOUD SYSTEM", SystemRoles))
  <2>1. createWasmCloudSystemAccount(r).subject = Key(r, "WASMCLOUD SYSTEM", 0)
    BY DEF createWasmCloudSystemAccount, Account
  <2>2. AccountJwt(r, a) =
          [Account(r, "default", LatticeRoles) EXCEPT !.tokens =
             {[subject |-> Key(r, "default", 0),
               account |-> createWasmCloudSystemAccount(r).subject, issuer |-> signer]}]
    BY <1>1, Zenon DEF AccountJwt, createLatticeAccount
  <2>. HIDE DEF signer
  <2>3. AccountJwt(r, a).tokens =
          {[subject |-> Key(r, "default", 0),
            account |-> createWasmCloudSystemAccount(r).subject, issuer |-> signer]}
    BY <2>2 DEF Account
  <2>4. t = [subject |-> Key(r, "default", 0),
             account |-> createWasmCloudSystemAccount(r).subject, issuer |-> signer]
    BY <2>3, Zenon
  <2>5. t.account = Key(r, "WASMCLOUD SYSTEM", 0) /\ t.issuer = signer
    BY <2>1, <2>4
  <2>. QED  BY <2>5 DEF signer
<1>2. CASE a \in {"SYS", "WASMCLOUD SYSTEM"}
  BY <1>2 DEF AccountJwt, createSystemAccount, createWasmCloudSystemAccount, Account
<1>3. CASE a \in {UserAuth.account, SystemAuth.account}
  BY <1>3 DEF AccountJwt, authCallout, Account, UserAuth, SystemAuth
<1>. QED  BY <1>1, <1>2, <1>3, ClaimedNames

\* The first and the last of an account's seeds.
LEMMA SeedEnds ==
  ASSUME NEW r, NEW a, NEW roles, NEW n \in Nat \ {0}, DOMAIN roles = 1 .. n
  PROVE  Head(Seeds(r, a, roles)) = Key(r, a, 1) /\ Last(Seeds(r, a, roles)) = Key(r, a, n)
<1>. DEFINE S == {Key(r, a, i) : i \in 1 .. n}
            s == Seeds(r, a, roles)
<1>1. s \in [1 .. n -> S] /\ s[1] = Key(r, a, 1) /\ s[n] = Key(r, a, n)
  BY DEF Seeds
<1>. HIDE DEF s, S
<1>2. s \in Seq(S) /\ Len(s) = n
  BY <1>1, TableSeq
<1>3. Head(s) = s[1]
  BY <1>2
<1>4. Last(s) = s[n]
  BY <1>2 DEF Last
<1>. QED  BY <1>1, <1>3, <1>4 DEF s

\* The account of each user, and the key that signs its claims.
LEMMA UserClaims ==
  ASSUME NEW r, NEW u \in UserNames
  PROVE  /\ UserAccount[u] \in AccountNames
         /\ UserJwt(r, u).subject = Key(r, u, 0)
         /\ UserJwt(r, u).account = Key(r, UserAccount[u], 0)
         /\ \E i \in DOMAIN Roles(UserAccount[u]) :
              /\ UserJwt(r, u).issuer = Key(r, UserAccount[u], i)
              /\ UserJwt(r, u).scoped <=> Roles(UserAccount[u])[i] # ""
<1>1. CASE u = "wasmCloud Host"
  <2>1. UserAccount[u] = "WASMCLOUD SYSTEM"
    BY <1>1 DEF UserAccount, UserNames
  <2>2. hostUserKey(r) = Key(r, "WASMCLOUD SYSTEM", 2) /\ 2 \in DOMAIN SystemRoles
    <3>1. 2 \in Nat \ {0} /\ 2 \in 1 .. 2
      OBVIOUS
    <3>. QED  BY <3>1, RoleTable, SeedEnds, Zenon DEF hostUserKey
  <2>3. /\ UserJwt(r, u).subject = Key(r, u, 0)
        /\ UserJwt(r, u).account = createWasmCloudSystemAccount(r).subject
        /\ UserJwt(r, u).issuer = hostUserKey(r)
        /\ UserJwt(r, u).scoped = TRUE
    BY <1>1 DEF UserJwt, hostUser, User
  <2>4. createWasmCloudSystemAccount(r).subject = Key(r, "WASMCLOUD SYSTEM", 0)
    BY DEF createWasmCloudSystemAccount, Account
  <2>. QED  BY <2>1, <2>2, <2>3, <2>4, RoleTable, ClaimedNames
<1>2. CASE u # "wasmCloud Host"
  <2>1. PICK c \in Callouts : u \in {c.writer, c.registration} /\ UserAccount[u] = c.account
    <3>1. \E c \in Callouts : u \in {c.writer, c.registration}
      BY <1>2, ClaimedNames, TwoCallouts
    <3>. DEFINE d == CHOOSE c \in Callouts : u \in {c.writer, c.registration}
    <3>2. d \in Callouts /\ u \in {d.writer, d.registration}
      BY <3>1
    <3>3. UserAccount[u] = d.account
      BY <1>2 DEF UserAccount, UserNames
    <3>. QED  BY <3>2, <3>3
  <2>2. UserAccount[u] \in AccountNames /\ Roles(UserAccount[u]) = AuthRoles
    BY <2>1, RoleTable DEF AccountNames
  <2>3. /\ UserJwt(r, u).subject = Key(r, u, 0)
        /\ UserJwt(r, u).account = AccountJwt(r, UserAccount[u]).subject
        /\ UserJwt(r, u).issuer = Head(Seeds(r, UserAccount[u], AuthRoles))
        /\ UserJwt(r, u).scoped = FALSE
    BY <1>2 DEF UserJwt, User
  <2>4. Head(Seeds(r, UserAccount[u], AuthRoles)) = Key(r, UserAccount[u], 1)
    <3>1. 1 \in Nat \ {0}
      OBVIOUS
    <3>. QED  BY <3>1, RoleTable, SeedEnds, Zenon
  <2>. QED  BY <2>2, <2>3, <2>4, AccountClaims, RoleTable
<1>. QED  BY <1>1, <1>2

\* A callout's account names its xkey and exempts its writer.
LEMMA CalloutClaims ==
  ASSUME NEW r, NEW c \in Callouts
  PROVE  \E auth \in AccountJwt(r, c.account).callout :
           /\ auth.xkey = Key(r, c.xkey, 0)
           /\ auth.authUsers = {Key(r, c.writer, 0)}
           /\ auth.allowed \subseteq {Key(r, "WASMCLOUD SYSTEM", 0)}
<1>1. createWasmCloudSystemAccount(r).subject = Key(r, "WASMCLOUD SYSTEM", 0)
  BY DEF createWasmCloudSystemAccount, Account
<1>2. CASE c = UserAuth
  BY <1>1, <1>2, TwoCallouts DEF AccountJwt, authCallout, Account, UserAuth
<1>3. CASE c = SystemAuth
  BY <1>1, <1>3, TwoCallouts DEF AccountJwt, authCallout, Account, SystemAuth
<1>. QED  BY <1>2, <1>3, TwoCallouts

\* The end of a run, over whatever earlier runs left: the claims and the seeds on
\* disk are all of the run, which fit together.
LEMMA OneHierarchy ==
  ASSUME NEW r, \A f \in ToSet(Files) : disk[f] = r
  PROVE  TrustChain /\ SeedsMatch
<1>1. /\ OperatorOnDisk = Operator(r)
      /\ disk[ResolverFile] = r
      /\ SeedOnDisk("operator", 0) = Key(r, "operator", 0)
      /\ SeedOnDisk("operator", 1) = Key(r, "operator", 1)
  BY FilesHas DEF OperatorOnDisk, SeedOnDisk, OperatorKey
<1>2. /\ Operator(r).signers = {Key(r, "operator", 1)}
      /\ Operator(r).subject = Key(r, "operator", 0)
      /\ Operator(r).systemAccount = Key(r, "SYS", 0)
  BY DEF Operator, createSystemAccount, Account
<1>3. \A a \in AccountNames : AccountOnDisk(a) = AccountJwt(r, a)
  BY FilesHas DEF AccountOnDisk
<1>4. \A u \in UserNames : UserOnDisk(u) = UserJwt(r, u) /\ SeedOnDisk(u, 0) = Key(r, u, 0)
  BY FilesHas DEF UserOnDisk, SeedOnDisk
<1>5. ASSUME NEW a \in AccountNames, NEW i \in {0} \cup DOMAIN Roles(a)
      PROVE  SeedOnDisk(a, i) = Key(r, a, i)
  <2>1. PICK n \in {1, 2, 3} : Len(Roles(a)) = n
    BY RolesLength, Zenon
  <2>2. DOMAIN Roles(a) \subseteq 1 .. n
    BY <2>1, RoleTable, Zenon
  <2>3. i \in 0 .. n
    BY <2>2
  <2>4. KeyFile(a, i) \in ToSet(Files)
    BY <2>1, <2>3, FilesHas, Zenon
  <2>. QED  BY <2>4 DEF SeedOnDisk
<1>6. {"SYS", "WASMCLOUD SYSTEM"} \subseteq AccountNames
  BY ClaimedNames
<1>7. TrustChain
  <2>1. \A a \in AccountNames : AccountOnDisk(a).issuer \in OperatorOnDisk.signers
    BY <1>1, <1>2, <1>3, AccountClaims
  <2>2. OperatorOnDisk.systemAccount = AccountOnDisk("SYS").subject
    BY <1>1, <1>2, <1>3, <1>6, AccountClaims
  <2>3. ASSUME NEW u \in UserNames
        PROVE  LET user == UserOnDisk(u)
                   account == AccountOnDisk(UserAccount[u])
               IN  /\ user.account = account.subject
                   /\ \E s \in account.signers :
                        s.key = user.issuer /\ (user.scoped <=> s.role # "")
    <3>. DEFINE a == UserAccount[u]
    <3>1. a \in AccountNames /\ UserOnDisk(u) = UserJwt(r, u) /\ AccountOnDisk(a) = AccountJwt(r, a)
      BY <1>3, <1>4, UserClaims
    <3>2. PICK i \in DOMAIN Roles(a) :
            /\ UserJwt(r, u).issuer = Key(r, a, i)
            /\ UserJwt(r, u).scoped <=> Roles(a)[i] # ""
      BY UserClaims
    <3>3. UserJwt(r, u).account = Key(r, a, 0)
      BY UserClaims
    <3>. HIDE DEF a
    <3>5. AccountJwt(r, a).subject = Key(r, a, 0)
      BY <3>1, AccountClaims
    <3>4. [key |-> Key(r, a, i), role |-> Roles(a)[i]] \in AccountJwt(r, a).signers
      <4>1. [key |-> Key(r, a, i), role |-> Roles(a)[i]] \in
              {[key |-> Key(r, a, j), role |-> Roles(a)[j]] : j \in DOMAIN Roles(a)}
        OBVIOUS
      <4>2. AccountJwt(r, a).signers =
              {[key |-> Key(r, a, j), role |-> Roles(a)[j]] : j \in DOMAIN Roles(a)}
        BY <3>1, AccountClaims, Zenon
      <4>. QED  BY <4>1, <4>2, Zenon
    <3>6. \E s \in AccountJwt(r, a).signers :
            s.key = UserJwt(r, u).issuer /\ (UserJwt(r, u).scoped <=> s.role # "")
      <4>. DEFINE signer == [key |-> Key(r, a, i), role |-> Roles(a)[i]]
      <4>1. signer.key = Key(r, a, i) /\ signer.role = Roles(a)[i]
        OBVIOUS
      <4>2. signer \in AccountJwt(r, a).signers
        BY <3>4
      <4>. HIDE DEF signer
      <4>. QED  BY <3>2, <4>1, <4>2, Zenon
    <3>. QED  BY <3>1, <3>3, <3>5, <3>6, Zenon DEF a
  <2>4. ASSUME NEW a \in AccountNames, NEW t \in AccountOnDisk(a).tokens
        PROVE  \E b \in AccountNames :
                 /\ t.account = AccountOnDisk(b).subject
                 /\ t.issuer \in {s.key : s \in AccountOnDisk(b).signers}
    <3>. DEFINE b == "WASMCLOUD SYSTEM"
    <3>1. t.account = Key(r, b, 0) /\ t.issuer = Head(Seeds(r, b, SystemRoles))
      BY <1>3, <2>4, AccountTokens, Zenon
    <3>2. Head(Seeds(r, b, SystemRoles)) = Key(r, b, 1)
      <4>1. 2 \in Nat \ {0}
        OBVIOUS
      <4>. QED  BY <4>1, RoleTable, SeedEnds, Zenon
    <3>3. [key |-> Key(r, b, 1), role |-> Roles(b)[1]] \in AccountOnDisk(b).signers
      <4>1. b \in AccountNames /\ 1 \in DOMAIN Roles(b)
        BY <1>6, RoleTable, Zenon
      <4>2. [key |-> Key(r, b, 1), role |-> Roles(b)[1]] \in
              {[key |-> Key(r, b, i), role |-> Roles(b)[i]] : i \in DOMAIN Roles(b)}
        BY <4>1
      <4>3. AccountJwt(r, b).signers =
              {[key |-> Key(r, b, i), role |-> Roles(b)[i]] : i \in DOMAIN Roles(b)}
        BY <4>1, AccountClaims, Zenon
      <4>. QED  BY <1>3, <4>1, <4>2, <4>3, Zenon
    <3>4. AccountOnDisk(b).subject = Key(r, b, 0)
      BY <1>3, <1>6, AccountClaims
    <3>5. t.issuer = Key(r, b, 1)
      BY <3>1, <3>2, Zenon
    <3>6. t.issuer \in {s.key : s \in AccountOnDisk(b).signers}
      <4>. DEFINE signer == [key |-> Key(r, b, 1), role |-> Roles(b)[1]]
      <4>1. signer \in AccountOnDisk(b).signers /\ signer.key = t.issuer
        BY <3>3, <3>5
      <4>. HIDE DEF signer
      <4>. QED  BY <4>1
    <3>7. t.account = AccountOnDisk(b).subject
      BY <3>1, <3>4, Zenon
    <3>. QED  BY <1>6, <3>6, <3>7
  <2>5. Resolver(disk[ResolverFile]) =
          [operator |-> OperatorOnDisk, preload |-> AccountOnDisk("SYS")]
    <3>1. AccountJwt(r, "SYS") = createSystemAccount(r)
      BY DEF AccountJwt
    <3>. QED  BY <1>1, <1>3, <1>6, <3>1 DEF Resolver
  <2>. QED  BY <2>1, <2>2, <2>3, <2>4, <2>5 DEF TrustChain
<1>8. SeedsMatch
  <2>1. /\ SeedOnDisk("operator", 0) = OperatorOnDisk.subject
        /\ SeedOnDisk("operator", 1) \in OperatorOnDisk.signers
    BY <1>1, <1>2
  <2>2. ASSUME NEW a \in AccountNames
        PROVE  /\ SeedOnDisk(a, 0) = AccountOnDisk(a).subject
               /\ \A i \in DOMAIN Roles(a) :
                    SeedOnDisk(a, i) \in {s.key : s \in AccountOnDisk(a).signers}
    <3>1. SeedOnDisk(a, 0) = AccountOnDisk(a).subject
      BY <1>3, <1>5, AccountClaims
    <3>2. ASSUME NEW i \in DOMAIN Roles(a)
          PROVE  SeedOnDisk(a, i) \in {s.key : s \in AccountOnDisk(a).signers}
      <4>1. [key |-> Key(r, a, i), role |-> Roles(a)[i]] \in AccountOnDisk(a).signers
        BY <1>3, AccountClaims
      <4>2. SeedOnDisk(a, i) = Key(r, a, i)
        BY <1>5
      <4>. QED  BY <4>1, <4>2
    <3>. QED  BY <3>1, <3>2
  <2>3. \A u \in UserNames : SeedOnDisk(u, 0) = UserOnDisk(u).subject
    BY <1>4, UserClaims
  <2>4. ASSUME NEW c \in Callouts
        PROVE  \E auth \in AccountOnDisk(c.account).callout :
                 /\ auth.xkey = SeedOnDisk(c.xkey, 0)
                 /\ auth.authUsers = {UserOnDisk(c.writer).subject}
                 /\ auth.allowed \subseteq {AccountOnDisk("WASMCLOUD SYSTEM").subject}
    <3>1. c.account \in AccountNames /\ c.writer \in UserNames
      BY ClaimedNames, TwoCallouts
    <3>2. SeedOnDisk(c.xkey, 0) = Key(r, c.xkey, 0)
      BY FilesHas DEF SeedOnDisk
    <3>3. UserOnDisk(c.writer).subject = Key(r, c.writer, 0)
      BY <1>4, <3>1, UserClaims
    <3>4. AccountOnDisk("WASMCLOUD SYSTEM").subject = Key(r, "WASMCLOUD SYSTEM", 0)
      BY <1>3, <1>6, AccountClaims
    <3>5. AccountOnDisk(c.account) = AccountJwt(r, c.account)
      BY <1>3, <3>1
    <3>. QED  BY <3>2, <3>3, <3>4, <3>5, CalloutClaims
  <2>. QED  BY <2>1, <2>2, <2>3, <2>4 DEF SeedsMatch
<1>. QED  BY <1>7, <1>8

-----------------------------------------------------------------------------
(* What is on disk, and what lattice-ctl finds there. *)

\* Nothing on disk is of a run to come; what the last run has come past is its
\* own, unless it is the file in hand once more and just emptied; all of it is
\* once the run is done.
DiskInv ==
  /\ TypeOK
  /\ \A f \in ToSet(Files) : disk[f] <= run
  /\ state # "none" => run # 0
  /\ state = "writing" =>
       \A k \in 1 .. pos - 1 : disk[Files[k]] = run \/ Files[k] = Files[pos]
  /\ state = "done" => \A f \in ToSet(Files) : disk[f] = run

\* The operator's key is never older than the system account's, neither on disk
\* nor compared with the one lattice-ctl has read already.
CtlInv ==
  /\ disk[OperatorKey] = 0 \/ disk[OperatorKey] >= disk[SystemKey]
  /\ ctl.seen <= run
  /\ ctl.pc = "readOperator" =>
       /\ ctl.system <= run
       /\ disk[OperatorKey] = 0 \/ disk[OperatorKey] >= ctl.system
       /\ (ctl.seen = run /\ run # 0) => state = "done" /\ ctl.system = run
  /\ CtlReadsForward

LEMMA FileTypes ==
  /\ Files \in Seq(File) /\ Len(Files) \in Nat \ {0}
  /\ DOMAIN Files = 1 .. Len(Files)
  /\ \A k \in 1 .. Len(Files) : Files[k] \in ToSet(Files)
  /\ OperatorKey \in ToSet(Files) /\ SystemKey \in ToSet(Files)
<1>1. Len(Files) \in Nat /\ DOMAIN Files = 1 .. Len(Files)
  BY FilesHas
<1>2. SystemKey \in ToSet(Files)
  <2>1. 0 \in 0 .. Len(Roles("WASMCLOUD SYSTEM"))
    <3>1. PICK n \in {1, 2, 3} : Len(Roles("WASMCLOUD SYSTEM")) = n
      BY RolesLength, Zenon
    <3>2. 0 \in 0 .. n
      OBVIOUS
    <3>. QED  BY <3>1, <3>2, Zenon
  <2>. QED  BY <2>1, FilesHas DEF SystemKey, AccountNames
<1>3. OperatorKey \in ToSet(Files)
  BY FilesHas
<1>4. Len(Files) # 0
  BY <1>1, <1>3 DEF ToSet
<1>. QED  BY <1>1, <1>2, <1>3, <1>4, FilesHas DEF ToSet

\* A run comes to the system account's key only after it wrote the operator's.
LEMMA OperatorKeyFirst ==
  ASSUME DiskInv, state = "writing", Files[pos] = SystemKey
  PROVE  disk[OperatorKey] = run
<1>1. pos \in DOMAIN Files
  BY FileTypes DEF DiskInv, TypeOK
<1>2. PICK j \in 1 .. pos - 1 : Files[j] = OperatorKey
  BY <1>1, FilesHas DEF Before
<1>3. OperatorKey # SystemKey
  <2>1. OperatorKey[2] = "operator" /\ SystemKey[2] = "WASMCLOUD SYSTEM"
    BY DEF OperatorKey, SystemKey, KeyFile
  <2>. QED  BY <2>1
<1>. QED  BY <1>2, <1>3 DEF DiskInv

LEMMA BootstrapInit == Init => DiskInv /\ CtlInv
<1>. SUFFICES ASSUME Init PROVE DiskInv /\ CtlInv
  OBVIOUS
<1>1. \A f \in ToSet(Files) : disk[f] = 0
  BY DEF Init
<1>. QED
  BY <1>1, FileTypes, MaxRunsAssumption
     DEF Init, DiskInv, CtlInv, CtlReadsForward, TypeOK

\* The types are kept by every step: a run writes no file past its last.
LEMMA TypeStep == TypeOK /\ [Next]_vars => TypeOK'
<1>. SUFFICES ASSUME TypeOK, [Next]_vars PROVE TypeOK'
  OBVIOUS
<1>. DEFINE Ctl == [pc : {"readSystem", "readOperator", "done", "panicked"},
                    system : 0 .. MaxRuns, operator : 0 .. MaxRuns, seen : 0 .. MaxRuns]
<1>0. /\ disk \in [ToSet(Files) -> 0 .. MaxRuns] /\ run \in 0 .. MaxRuns /\ ctl \in Ctl
      /\ 0 \in 0 .. MaxRuns /\ pos \in 1 .. Len(Files) + 1
      /\ state \in {"none", "writing", "done", "failed"}
      /\ state = "writing" => pos \in 1 .. Len(Files) /\ Files[pos] \in ToSet(Files)
  BY FileTypes, MaxRunsAssumption DEF TypeOK
<1>1. CASE Bootstrap
  <2>1. run' \in 0 .. MaxRuns /\ 1 \in 1 .. Len(Files)
    BY <1>0, <1>1, FileTypes, MaxRunsAssumption DEF Bootstrap
  <2>. QED  BY <1>0, <1>1, <2>1 DEF Bootstrap, TypeOK
<1>2. CASE WriteFile
  <2>1. disk' \in [ToSet(Files) -> 0 .. MaxRuns]
    BY <1>0, <1>2 DEF WriteFile
  <2>2. pos' \in 1 .. Len(Files) + 1 /\ (state' = "writing" => pos' <= Len(Files))
    <3>1. PICK n \in Nat : n = Len(Files)
      BY FileTypes, Zenon
    <3>2. pos' = pos + 1 /\ pos \in 1 .. n /\ (state' = "writing" => pos # n)
      BY <1>0, <1>2, <3>1, Zenon DEF WriteFile
    <3>3. pos' \in 1 .. n + 1 /\ (state' = "writing" => pos' <= n)
      BY <3>2
    <3>. QED  BY <3>1, <3>3, Zenon
  <2>3. state' \in {"none", "writing", "done", "failed"}
    BY <1>2 DEF WriteFile
  <2>. QED  BY <1>0, <1>2, <2>1, <2>2, <2>3 DEF WriteFile, TypeOK
<1>3. CASE BootstrapFails
  <2>1. disk' \in [ToSet(Files) -> 0 .. MaxRuns]
    BY <1>0, <1>3 DEF BootstrapFails
  <2>. QED  BY <1>0, <1>3, <2>1 DEF BootstrapFails, TypeOK
<1>4. CASE CtlReadSystem
  <2>1. ctl' \in Ctl
    BY <1>0, <1>4, FileTypes DEF CtlReadSystem, SystemKey
  <2>. QED  BY <1>0, <1>4, <2>1 DEF CtlReadSystem, TypeOK
<1>5. CASE CtlReadOperator
  <2>1. ctl' \in Ctl
    BY <1>0, <1>5, FileTypes DEF CtlReadOperator, OperatorKey
  <2>. QED  BY <1>0, <1>5, <2>1 DEF CtlReadOperator, TypeOK
<1>6. CASE CtlPanics
  <2>1. ctl' \in Ctl
    BY <1>0, <1>6 DEF CtlPanics
  <2>. QED  BY <1>0, <1>6, <2>1 DEF CtlPanics, TypeOK
<1>7. CASE UNCHANGED vars
  BY <1>7 DEF vars, TypeOK
<1>8. CASE TruncateFile
  <2>1. disk' \in [ToSet(Files) -> 0 .. MaxRuns]
    BY <1>0, <1>8 DEF TruncateFile
  <2>. QED  BY <1>0, <1>8, <2>1 DEF TruncateFile, TypeOK
<1>. QED  BY <1>1, <1>2, <1>3, <1>4, <1>5, <1>6, <1>7, <1>8 DEF Next

LEMMA DiskStep == DiskInv /\ [Next]_vars => DiskInv'
<1>. SUFFICES ASSUME DiskInv, [Next]_vars PROVE DiskInv'
  OBVIOUS
<1>0. /\ TypeOK /\ TypeOK' /\ run \in Nat /\ disk \in [ToSet(Files) -> Nat]
      /\ pos \in Nat \ {0}
      /\ state = "writing" => pos \in 1 .. Len(Files) /\ Files[pos] \in ToSet(Files)
  <2>1. TypeOK /\ TypeOK'
    BY TypeStep DEF DiskInv
  <2>2. run \in Nat /\ disk \in [ToSet(Files) -> Nat]
    BY <2>1, MaxRunsAssumption DEF TypeOK
  <2>3. /\ pos \in Nat \ {0}
        /\ state = "writing" => pos \in 1 .. Len(Files)
    BY <2>1, FileTypes DEF TypeOK
  <2>. QED  BY <2>1, <2>2, <2>3, FileTypes
<1>1. CASE Bootstrap
  <2>1. \A f \in ToSet(Files) : disk[f] <= run + 1
    BY <1>0 DEF DiskInv
  <2>. QED  BY <1>0, <1>1, <2>1 DEF Bootstrap, DiskInv
<1>2. CASE WriteFile
  <2>1. /\ run' = run /\ state = "writing" /\ pos' = pos + 1 /\ state' # "none"
        /\ disk' = [disk EXCEPT ![Files[pos]] = run]
        /\ state' = "done" => pos = Len(Files)
    BY <1>2 DEF WriteFile
  <2>2. \A f \in ToSet(Files) : disk'[f] = disk[f] \/ disk'[f] = run
    BY <1>0, <2>1
  <2>3. \A f \in ToSet(Files) : disk'[f] <= run
    BY <1>0, <2>2 DEF DiskInv
  <2>4. ASSUME NEW k \in 1 .. pos PROVE disk'[Files[k]] = run
    <3>1. k \in 1 .. Len(Files) /\ Files[k] \in ToSet(Files)
      <4>1. PICK n \in Nat : n = Len(Files)
        BY FileTypes, Zenon
      <4>2. pos \in 1 .. n
        BY <1>0, <2>1, <4>1, Zenon
      <4>3. k \in 1 .. n
        BY <4>2
      <4>. QED  BY <4>1, <4>3, FileTypes, Zenon
    <3>2. CASE k = pos
      BY <1>0, <2>1, <3>2
    <3>3. CASE k # pos
      <4>1. disk[Files[k]] = run \/ Files[k] = Files[pos]
        BY <1>0, <2>1, <3>3 DEF DiskInv
      <4>. QED  BY <1>0, <2>1, <2>2, <3>1, <4>1
    <3>. QED  BY <3>2, <3>3
  <2>5. ASSUME pos = Len(Files), NEW f \in ToSet(Files) PROVE disk'[f] = run
    <3>1. PICK k \in 1 .. Len(Files) : f = Files[k]
      BY FileTypes DEF ToSet
    <3>. QED  BY <2>4, <2>5, <3>1
  <2>6. \A k \in 1 .. pos' - 1 : disk'[Files[k]] = run'
    BY <1>0, <2>1, <2>4
  <2>. QED  BY <1>0, <2>1, <2>3, <2>5, <2>6 DEF DiskInv
<1>3. CASE BootstrapFails
  <2>1. \A f \in ToSet(Files) : disk'[f] \in {disk[f], 0}
    BY <1>0, <1>3 DEF BootstrapFails
  <2>2. \A f \in ToSet(Files) : disk'[f] <= run
    BY <1>0, <2>1 DEF DiskInv
  <2>. QED  BY <1>0, <1>3, <2>2 DEF BootstrapFails, DiskInv
<1>4. CASE CtlReadSystem \/ CtlReadOperator \/ CtlPanics \/ UNCHANGED vars
  <2>1. UNCHANGED <<disk, run, state, pos>>
    BY <1>4 DEF CtlReadSystem, CtlReadOperator, CtlPanics, vars
  <2>. QED  BY <1>0, <2>1 DEF DiskInv
<1>5. CASE TruncateFile
  <2>1. /\ UNCHANGED <<run, state, pos>> /\ state = "writing"
        /\ disk' = [disk EXCEPT ![Files[pos]] = 0]
    BY <1>5 DEF TruncateFile
  <2>2. \A f \in ToSet(Files) : disk'[f] <= run /\ (f # Files[pos] => disk'[f] = disk[f])
    BY <1>0, <2>1 DEF DiskInv
  <2>3. ASSUME NEW k \in 1 .. pos - 1 PROVE disk'[Files[k]] = run \/ Files[k] = Files[pos]
    <3>1. disk[Files[k]] = run \/ Files[k] = Files[pos]
      BY <2>1 DEF DiskInv
    <3>2. Files[k] \in ToSet(Files)
      <4>1. PICK n \in Nat : n = Len(Files)
        BY FileTypes, Zenon
      <4>2. pos \in 1 .. n
        BY <1>0, <2>1, <4>1, Zenon
      <4>3. k \in 1 .. n
        BY <4>2
      <4>. QED  BY <4>1, <4>3, FileTypes, Zenon
    <3>. QED  BY <2>2, <3>1, <3>2
  <2>. QED  BY <1>0, <2>1, <2>2, <2>3 DEF DiskInv
<1>. QED  BY <1>1, <1>2, <1>3, <1>4, <1>5 DEF Next

LEMMA CtlStep == DiskInv /\ CtlInv /\ [Next]_vars => CtlInv'
<1>. SUFFICES ASSUME DiskInv, CtlInv, [Next]_vars PROVE CtlInv'
  OBVIOUS
<1>. USE FileTypes DEF CtlInv, CtlReadsForward
<1>0. /\ run \in Nat /\ disk \in [ToSet(Files) -> Nat]
      /\ ctl.system \in Nat /\ ctl.operator \in Nat /\ ctl.seen \in Nat
      /\ disk[OperatorKey] \in Nat /\ disk[OperatorKey] <= run
      /\ disk[SystemKey] \in Nat /\ disk[SystemKey] <= run
  BY MaxRunsAssumption DEF DiskInv, TypeOK
<1>1. CASE Bootstrap
  BY <1>0, <1>1 DEF Bootstrap
<1>2. CASE WriteFile
  <2>1. /\ run' = run /\ ctl' = ctl /\ state = "writing"
        /\ disk' = [disk EXCEPT ![Files[pos]] = run]
    BY <1>2 DEF WriteFile
  <2>2. disk'[OperatorKey] \in {disk[OperatorKey], run}
    BY <1>0, <2>1
  <2>3. disk'[SystemKey] = disk[SystemKey] \/ (disk'[SystemKey] = run /\ disk[OperatorKey] = run)
    BY <1>0, <2>1, OperatorKeyFirst
  <2>. QED  BY <1>0, <2>1, <2>2, <2>3
<1>3. CASE BootstrapFails
  <2>1. disk'[OperatorKey] \in {disk[OperatorKey], 0} /\ disk'[SystemKey] \in {disk[SystemKey], 0}
    BY <1>0, <1>3 DEF BootstrapFails
  <2>. QED  BY <1>0, <1>3, <2>1 DEF BootstrapFails
<1>4. CASE CtlReadSystem
  <2>1. /\ ctl'.pc = "readOperator" /\ ctl'.system = disk[SystemKey]
        /\ ctl'.seen = (IF state = "done" THEN run ELSE 0)
        /\ UNCHANGED <<disk, run, state, pos>>
    BY <1>4 DEF CtlReadSystem, SystemKey, DiskInv, TypeOK
  <2>2. state = "done" => disk[SystemKey] = run
    BY DEF DiskInv
  <2>. QED  BY <1>0, <2>1, <2>2
<1>5. CASE CtlReadOperator
  <2>1. /\ ctl.pc = "readOperator" /\ ctl'.pc = "done"
        /\ ctl'.operator = disk[OperatorKey] /\ disk[OperatorKey] # 0
        /\ ctl'.system = ctl.system /\ ctl'.seen = ctl.seen
        /\ UNCHANGED <<disk, run, state, pos>>
    BY <1>5 DEF CtlReadOperator, OperatorKey, DiskInv, TypeOK
  <2>2. state = "done" => disk[OperatorKey] = run
    BY DEF DiskInv
  <2>. QED  BY <1>0, <2>1, <2>2
<1>6. CASE CtlPanics
  <2>1. ctl'.pc = "panicked" /\ ctl'.seen = ctl.seen /\ UNCHANGED <<disk, run, state, pos>>
    BY <1>6 DEF CtlPanics, DiskInv, TypeOK
  <2>. QED  BY <2>1
<1>7. CASE UNCHANGED vars
  BY <1>7 DEF vars
<1>8. CASE TruncateFile
  <2>1. /\ UNCHANGED <<run, state, pos, ctl>> /\ state = "writing"
        /\ disk'[OperatorKey] \in {disk[OperatorKey], 0}
        /\ disk'[SystemKey] \in {disk[SystemKey], 0}
    BY <1>0, <1>8 DEF TruncateFile
  <2>. QED  BY <1>0, <2>1
<1>. QED  BY <1>1, <1>2, <1>3, <1>4, <1>5, <1>6, <1>7, <1>8 DEF Next

\* The invariants hold in every reachable state.
THEOREM Invariance == Spec => [](DiskInv /\ CtlInv)
BY BootstrapInit, DiskStep, CtlStep, PTL DEF Spec

\* The types, for any number of runs: a run ends with its last file.
THEOREM TypeCorrect == Spec => []TypeOK
<1>1. DiskInv => TypeOK
  BY DEF DiskInv
<1>. QED  BY <1>1, Invariance, PTL

\* lattice-ctl never gets an operator key older than its system key, and both of
\* one hierarchy if none was begun since one was done, however many runs fail or
\* succeed between its two reads.
THEOREM CtlCorrect == Spec => []CtlReadsForward
<1>1. CtlInv => CtlReadsForward
  BY DEF CtlInv
<1>. QED  BY <1>1, Invariance, PTL

\* When a run returns without an error, what is on disk is one hierarchy that
\* verifies, however many earlier runs left files there, complete or torn.
THEOREM DoneCorrect == Spec => []DoneVerifies
<1>1. ASSUME DiskInv PROVE DoneVerifies
  <2>. SUFFICES ASSUME state = "done"
                PROVE  (\A f \in DOMAIN disk : disk[f] # 0) /\ TrustChain /\ SeedsMatch
    BY DEF DoneVerifies
  <2>1. run # 0 /\ DOMAIN disk = ToSet(Files) /\ \A f \in ToSet(Files) : disk[f] = run
    BY <1>1 DEF DiskInv, TypeOK
  <2>2. TrustChain /\ SeedsMatch
    BY <2>1, OneHierarchy
  <2>. QED  BY <2>1, <2>2
<1>. QED  BY <1>1, Invariance, PTL

=============================================================================
