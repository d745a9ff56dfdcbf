----------------------------- MODULE SiteProofs -----------------------------
(***************************************************************************)
(* Proofs about the RADIUS server of a site, for every value of the        *)
(* constants: the certificate it shows (ServerCert), and whom it lets in   *)
(* (SiteAccess).  The two have no state in common.                         *)
(***************************************************************************)
EXTENDS ServerCert, SiteAccess, TLAPS

(***************************************************************************)
(* The inductive invariant of ServerCert.                                  *)
(***************************************************************************)

\* The present request has a certificate.
HasCert == \E s \in DOMAIN minted : minted[s] = tries

\* Certificates are for requests made so far, one each at most, and a
\* handler that has signed has signed the present one.
Ledger ==
  /\ \A s \in DOMAIN minted : minted[s] <= tries
  /\ Len(minted) <= tries + 1 /\ (HasCert \/ Len(minted) <= tries)
  /\ \A h \in Hubs : call[h] \in {"minted", "answered"} => HasCert

\* While the agent installs: the answer is the present request's, what is
\* saved was due, and the files are as far as the pass has come.
Installing == agent \notin Hubs \cup {"rest"}
Undoing == agent \in {"unkey", "uncert", "unchain"}
Pair ==
  /\ agent \in Hubs => Due(cert)
  /\ Installing => minted[got] = tries /\ Due(backup.cert)
  /\ agent = "key" => key = backup.key /\ cert = backup.cert
  /\ agent = "cert" => key = tries /\ cert = backup.cert
  /\ agent \in {"chain", "check", "reload", "look"} => key = tries /\ cert = got
  /\ agent = "uncert" => key = backup.key
  /\ agent \in {"unchain", "reapply"} => key = backup.key /\ cert = backup.cert

\* The chain is whole but while a rollback is under way, as long as nothing
\* worse than a failed write has happened to it.
Chained ==
  /\ ~scar => chain \/ Undoing
  /\ ~scar /\ Installing => backup.chain
  /\ agent \in {"check", "reload", "look"} => chain

\* While no agent has died and no rollback was cut: the saved pair matches, and
\* the service runs with the pair on the disk or has missed a reload.
Serving ==
  deaths = 0 /\ ~scar =>
    /\ ~Installing => Matches(key, cert) /\ (up => loaded = cert \/ missed)
    /\ Installing => Matches(backup.key, backup.cert)
    /\ agent = "look" => (up => loaded = cert)

Inv == TypeOK /\ Ledger /\ SignedOnce /\ Pair /\ Chained /\ Serving /\ MismatchHeals

(***************************************************************************)
(* Facts about the definitions.                                            *)
(***************************************************************************)

\* A certificate that was due, or fitted its key, still is and does when
\* another one is signed.
LEMMA Appended ==
  ASSUME TypeOK, NEW t \in 0..MaxTries, minted' = Append(minted, t)
  PROVE  /\ Len(minted') = Len(minted) + 1
         /\ \A s \in DOMAIN minted : s \in DOMAIN minted' /\ minted'[s] = minted[s]
         /\ minted'[Len(minted) + 1] = t
         /\ DOMAIN minted' = DOMAIN minted \cup {Len(minted) + 1}
<1>1. minted \in Seq(0..MaxTries) /\ Len(minted) \in Nat
  BY DEF TypeOK
<1> QED
  BY <1>1

LEMMA SignedIs ==
  ASSUME TypeOK, HasCert
  PROVE  Signed \in 1..Len(minted) /\ minted[Signed] = tries
BY DEF Signed, HasCert, TypeOK

\* A step without a fault, or with one more, keeps the count in its bound.
LEMMA FaultCounted ==
  ASSUME TypeOK, Smooth \/ Fault \/ Cut
  PROVE  faults' \in 0..MaxFaults /\ UNCHANGED <<tries, deaths>> /\ scar' \in {scar, TRUE}
<1> USE ServerCertAssumption DEF TypeOK
<1>1. CASE Smooth
  BY <1>1 DEF Smooth, budget
<1>2. CASE Fault
  BY <1>2 DEF Fault
<1>3. CASE Cut
  BY <1>3 DEF Cut
<1> QED
  BY <1>1, <1>2, <1>3

THEOREM InitInv == Init => Inv
<1> SUFFICES ASSUME Init
             PROVE  Inv
  OBVIOUS
<1> USE ServerCertAssumption DEF Init
<1>1. Len(minted) = 1 /\ DOMAIN minted = {1} /\ minted[1] = 0 /\ minted \in Seq(0..MaxTries)
  OBVIOUS
<1>2. Torn # 1
  OBVIOUS
<1>3. Matches(0, 1)
  BY <1>1, <1>2 DEF Matches
<1>4. TypeOK
  <2>1. 1 \in Serials
    BY DEF Serials
  <2>2. call \in [Hubs -> {"none", "asked", "minted", "answered"}] /\ agent \in Places
    BY DEF Places
  <2>3. backup \in [key : 0..MaxTries \cup {Torn}, cert : Serials \cup {Torn}, chain : BOOLEAN]
    BY <2>1
  <2>4. /\ newest \in 0..Len(minted) /\ aged \in 0..Len(minted) /\ got \in 1..Len(minted)
        /\ cert \in 1..Len(minted) /\ loaded \in 1..Len(minted) /\ Len(minted) \in Serials
    BY <1>1, <2>1
  <2>5. key \in 0..MaxTries /\ tries \in 0..MaxTries /\ faults \in 0..MaxFaults /\ deaths \in 0..MaxDeaths
    OBVIOUS
  <2> HIDE DEF Init
  <2>6. chain \in BOOLEAN /\ up \in BOOLEAN /\ missed \in BOOLEAN /\ scar \in BOOLEAN
    BY DEF Init
  <2> QED
    BY <1>1, <2>2, <2>3, <2>4, <2>5, <2>6 DEF TypeOK
<1>5. Ledger /\ SignedOnce
  BY <1>1 DEF Ledger, HasCert, SignedOnce
<1>6. Pair /\ Chained /\ Serving /\ MismatchHeals
  BY <1>3 DEF Pair, Installing, Chained, Serving, MismatchHeals, Sound, Hubs
<1> QED
  BY <1>4, <1>5, <1>6 DEF Inv

(***************************************************************************)
(* The hub.                                                                *)
(***************************************************************************)
LEMMA MintInv ==
  ASSUME Inv, NEW h \in Hubs, Mint(h)
  PROVE  Inv'
<1> USE ServerCertAssumption DEF Inv
<1>u. UNCHANGED <<newest, aged, files, service, agent, memory, budget>>
  BY DEF Mint, Smooth
<1>c. call' = [call EXCEPT ![h] = "minted"]
  BY DEF Mint
<1>1. CASE HasCert
  <2>1. UNCHANGED minted
    BY <1>1 DEF Mint, SignOnce, HasCert
  <2>2. TypeOK'
    BY <1>u, <1>c, <2>1 DEF TypeOK, files, service, memory, budget
  <2>3. Ledger'
    BY <1>u, <1>c, <2>1, <1>1 DEF TypeOK, Ledger, HasCert, budget
  <2>4. SignedOnce' /\ Pair' /\ Chained' /\ Serving' /\ MismatchHeals'
    BY <1>u, <2>1 DEF SignedOnce, Pair, Chained, Serving, MismatchHeals, Installing, Undoing,
                      Sound, Matches, Due, files, service, memory, budget
  <2> QED
    BY <2>2, <2>3, <2>4
<1>2. CASE ~HasCert
  <2>1. minted' = Append(minted, tries)
    BY <1>2 DEF Mint, SignOnce, HasCert
  <2>2. /\ Len(minted') = Len(minted) + 1
        /\ \A s \in DOMAIN minted : s \in DOMAIN minted' /\ minted'[s] = minted[s]
        /\ minted'[Len(minted) + 1] = tries
        /\ DOMAIN minted' = DOMAIN minted \cup {Len(minted) + 1}
    BY <2>1, Appended
  <2>d. DOMAIN minted = 1..Len(minted) /\ Len(minted) \in Nat /\ tries \in 0..MaxTries
    BY DEF TypeOK
  <2>3. TypeOK'
    <3>1. minted' \in Seq(0..MaxTries)
      BY <2>1 DEF TypeOK
    <3>2. Len(minted') \in Serials
      BY <2>2, <2>d, <1>2 DEF Ledger, Serials
    <3>3. 1..Len(minted) \subseteq 1..Len(minted') /\ 0..Len(minted) \subseteq 0..Len(minted')
      BY <2>2, <2>d
    <3>4. call' \in [Hubs -> {"none", "asked", "minted", "answered"}]
      BY <1>c DEF TypeOK
    <3> QED
      BY <3>1, <3>2, <3>3, <3>4, <1>u DEF TypeOK, files, service, memory, budget
  <2>4. Ledger'
    <3>1. HasCert'
      BY <2>2, <1>u, <2>d DEF HasCert, budget
    <3>2. \A s \in DOMAIN minted' : minted'[s] <= tries'
      BY <2>2, <2>d, <1>u DEF Ledger, budget
    <3> QED
      BY <3>1, <3>2, <2>2, <2>d, <1>2, <1>u DEF Ledger, budget
  <2>5. SignedOnce'
    BY <2>2, <2>d, <1>2 DEF SignedOnce, HasCert
  <2>7. Pair' /\ Chained'
    BY <1>u, <2>2, <2>d DEF Pair, Chained, Installing, Undoing, Due, TypeOK, files, memory, budget
  <2>8. Serving'
    <3>1. Matches(key, cert) => Matches(key, cert)'
      BY <1>u, <2>2, <2>d DEF Matches, TypeOK, files
    <3>2. Installing => backup.cert \in 1..Len(minted)
      BY <2>d DEF Pair, Due, TypeOK, Serials
    <3>3. Installing /\ Matches(backup.key, backup.cert) => Matches(backup.key, backup.cert)'
      BY <1>u, <2>2, <2>d, <3>2 DEF Matches, memory
    <3>4. UNCHANGED <<key, cert, loaded, up, missed, agent, backup, deaths, scar>>
      BY <1>u DEF files, service, memory, budget
    <3> HIDE DEF Inv
    <3> QED
      BY <3>1, <3>3, <3>4 DEF Inv, Serving, Installing
  <2>9. MismatchHeals'
    BY <1>u, <2>2, <2>d DEF MismatchHeals, Sound, Matches, Due, TypeOK, files, budget
  <2> QED
    BY <2>3, <2>4, <2>5, <2>7, <2>8, <2>9
<1> QED
  BY <1>1, <1>2

LEMMA RecordInv ==
  ASSUME Inv, NEW h \in Hubs, Record(h)
  PROVE  Inv'
<1> USE DEF Inv
<1>1. HasCert
  BY DEF Record, Ledger
<1>2. Signed \in 1..Len(minted)
  BY <1>1, SignedIs
<1>u. UNCHANGED <<minted, aged, files, service, agent, memory, budget>>
  BY DEF Record, Smooth
<1>3. TypeOK'
  BY <1>u, <1>2 DEF Record, TypeOK, files, service, memory, budget
<1>4. Ledger'
  BY <1>u, <1>1 DEF Record, Ledger, HasCert, TypeOK, budget
<1>5. SignedOnce' /\ Pair' /\ Chained' /\ Serving' /\ MismatchHeals'
  BY <1>u DEF SignedOnce, Pair, Chained, Serving, MismatchHeals, Installing, Undoing, Sound,
              Matches, Due, files, service, memory, budget
<1> QED
  BY <1>3, <1>4, <1>5

LEMMA HandlerDiesInv ==
  ASSUME Inv, NEW h \in Hubs, HandlerDies(h)
  PROVE  Inv'
<1> USE ServerCertAssumption DEF Inv
<1>u. UNCHANGED <<minted, newest, aged, files, service, agent, memory, tries, deaths, scar>>
  BY DEF HandlerDies, Fault
<1>1. TypeOK'
  BY <1>u DEF HandlerDies, Fault, TypeOK, files, service, memory
<1>2. Ledger'
  BY <1>u DEF HandlerDies, Ledger, HasCert, TypeOK
<1>3. SignedOnce' /\ Pair' /\ Chained' /\ Serving' /\ MismatchHeals'
  BY <1>u DEF SignedOnce, Pair, Chained, Serving, MismatchHeals, Installing, Undoing, Sound,
              Matches, Due, files, service, memory
<1> QED
  BY <1>1, <1>2, <1>3

LEMMA AgeInv ==
  ASSUME Inv, Age
  PROVE  Inv'
<1> USE DEF Inv
<1>u. UNCHANGED <<minted, newest, call, files, service, agent, memory, budget>>
  BY DEF Age, Smooth
<1>1. agent = "rest" /\ cert \in 1..Len(minted) /\ aged' = cert /\ cert # Torn
  BY DEF Age, TypeOK
<1>2. TypeOK'
  BY <1>u, <1>1 DEF TypeOK, files, service, memory, budget
<1>3. Ledger' /\ SignedOnce' /\ Chained' /\ Serving'
  BY <1>u DEF Ledger, HasCert, SignedOnce, Chained, Serving, Installing, Undoing, Matches,
              files, service, memory, budget
<1>4. Pair'
  BY <1>u, <1>1 DEF Pair, Installing, Hubs
<1>5. MismatchHeals'
  BY <1>u, <1>1 DEF MismatchHeals, Due, TypeOK, files, budget
<1> QED
  BY <1>2, <1>3, <1>4, <1>5

(***************************************************************************)
(* The request.                                                            *)
(***************************************************************************)
LEMMA CheckInInv ==
  ASSUME Inv, CheckIn
  PROVE  Inv'
<1> USE ServerCertAssumption DEF Inv
<1>u. UNCHANGED <<minted, newest, aged, files, service, memory, faults, deaths, scar>>
  BY DEF CheckIn
<1>1. agent = "rest" /\ agent' = "primary" /\ Due(cert) /\ tries < MaxTries /\ tries' = tries + 1
  BY DEF CheckIn
<1>2. TypeOK'
  BY <1>u, <1>1 DEF CheckIn, TypeOK, Hubs, Places, files, service, memory
<1>3. Ledger'
  <2>1. \A h \in Hubs : call'[h] \notin {"minted", "answered"}
    BY DEF CheckIn
  <2>2. \A s \in DOMAIN minted : minted[s] <= tries'
    BY <1>1 DEF Ledger, TypeOK
  <2> QED
    BY <2>1, <2>2, <1>1, <1>u DEF Ledger, TypeOK
<1>4. SignedOnce'
  BY <1>u DEF SignedOnce
<1>5. Pair'
  BY <1>u, <1>1 DEF Pair, Installing, Hubs, Due, files
<1>6. Chained' /\ Serving' /\ MismatchHeals'
  BY <1>u, <1>1 DEF Chained, Serving, MismatchHeals, Installing, Undoing, Hubs, Matches,
                    files, service
<1> QED
  BY <1>2, <1>3, <1>4, <1>5, <1>6

LEMMA AnsweredInv ==
  ASSUME Inv, Answered
  PROVE  Inv'
<1> USE DEF Inv
<1>u. UNCHANGED <<minted, newest, aged, call, files, service, budget>>
  BY DEF Answered, Smooth, hub
<1>1. /\ agent \in Hubs /\ agent' = "key" /\ got' = Signed
      /\ backup' = [key |-> key, cert |-> cert, chain |-> chain]
  BY DEF Answered
<1>2. HasCert
  BY <1>1 DEF Answered, Ledger
<1>3. Signed \in 1..Len(minted) /\ minted[Signed] = tries
  BY <1>2, SignedIs
<1>4. cert \in Serials \cup {Torn}
  <2>1. Len(minted) \in Nat /\ Len(minted) <= 2 * MaxTries + 1
    BY DEF TypeOK, Serials
  <2> QED
    BY <2>1, ServerCertAssumption DEF TypeOK, Serials
<1>5. TypeOK'
  BY <1>u, <1>1, <1>3, <1>4 DEF TypeOK, Places, files, service, budget
<1>6. Ledger' /\ SignedOnce'
  BY <1>u DEF Ledger, HasCert, SignedOnce, budget
<1>7. Pair'
  BY <1>u, <1>1, <1>3 DEF Pair, Installing, Hubs, Due, files, budget
<1>8. Chained' /\ Serving' /\ MismatchHeals'
  BY <1>u, <1>1 DEF Chained, Serving, MismatchHeals, Installing, Undoing, Hubs, Matches,
                    files, service, budget
<1> QED
  BY <1>5, <1>6, <1>7, <1>8

LEMMA GivesUpInv ==
  ASSUME Inv, GivesUp
  PROVE  Inv'
<1> USE ServerCertAssumption DEF Inv
<1>u. UNCHANGED <<minted, newest, aged, files, service, memory, tries, deaths, scar>>
  BY DEF GivesUp, Smooth, Fault, budget
<1>1. /\ agent \in Hubs /\ Due(cert) /\ agent' \in {"secondary", "rest"}
      /\ faults' \in 0..MaxFaults
      /\ call' = call \/ call' = [call EXCEPT !["secondary"] = "asked"]
  BY DEF GivesUp, Smooth, Fault, Hubs, Pair, TypeOK, budget
<1>2. TypeOK'
  BY <1>u, <1>1 DEF TypeOK, Hubs, Places, files, service, memory
<1>3. Ledger' /\ SignedOnce'
  BY <1>u, <1>1 DEF Ledger, HasCert, SignedOnce, TypeOK, Hubs
<1>4. Pair'
  BY <1>u, <1>1 DEF Pair, Installing, Hubs, Due, files
<1>5. Chained' /\ Serving' /\ MismatchHeals'
  BY <1>u, <1>1 DEF Chained, Serving, MismatchHeals, Installing, Undoing, Hubs, Matches, Due,
                    files, service
<1> QED
  BY <1>2, <1>3, <1>4, <1>5

(***************************************************************************)
(* The installation.                                                       *)
(***************************************************************************)

\* The steps of the installation leave the hub and what is saved alone, and
\* nobody dies in them.
Quiet == /\ UNCHANGED <<hub, memory, tries, deaths>> /\ scar' \in {scar, TRUE}
         /\ faults' \in 0..MaxFaults /\ agent' \in Places \ Hubs

LEMMA QuietIs ==
  ASSUME TypeOK, Smooth \/ Fault \/ Cut, UNCHANGED <<hub, memory>>, agent' \in Places \ Hubs
  PROVE  Quiet
BY FaultCounted DEF Quiet

LEMMA QuietInv ==
  ASSUME Inv, Quiet, Installing,
         key' \in 0..MaxTries \cup {Torn}, cert' \in 1..Len(minted) \cup {Torn},
         chain' \in BOOLEAN,
         loaded' \in 1..Len(minted), up' \in BOOLEAN, missed' \in BOOLEAN
  PROVE  /\ TypeOK' /\ Ledger' /\ SignedOnce'
         /\ UNCHANGED <<minted, aged, got, backup, tries>>
         /\ got \in 1..Len(minted) /\ minted[got] = tries /\ Due(backup.cert)
         /\ backup.key \in 0..MaxTries \cup {Torn} /\ backup.cert \in 1..Len(minted)
         /\ ~scar' => ~scar /\ backup.chain
         /\ deaths' = 0 /\ ~scar' => deaths = 0 /\ ~scar /\ Matches(backup.key, backup.cert)
<1> USE DEF Inv
<1>1. TypeOK'
  BY DEF Quiet, TypeOK, hub, memory, Hubs
<1>2. Ledger' /\ SignedOnce'
  BY DEF Quiet, Ledger, HasCert, SignedOnce, hub
<1>3. backup.cert \in 1..Len(minted) /\ got \in 1..Len(minted)
  BY DEF TypeOK, Pair, Due, Serials
<1>4. ~scar' => ~scar
  BY DEF Quiet, TypeOK
<1>5. UNCHANGED <<minted, aged, got, backup, tries>>
  BY DEF Quiet, hub, memory
<1> QED
  BY <1>1, <1>2, <1>3, <1>4, <1>5 DEF Quiet, Pair, Chained, Serving, TypeOK

LEMMA WriteKeyInv ==
  ASSUME Inv, WriteKey
  PROVE  Inv'
<1> USE DEF Inv
<1>1. /\ agent = "key" /\ Installing /\ UNCHANGED <<cert, chain, service>>
      /\ (key' = tries /\ agent' = "cert") \/ (key' = Torn /\ agent' = "unkey")
  BY DEF WriteKey, Installing, Hubs
<1>2. Quiet
  BY <1>1, QuietIs DEF WriteKey, Places, Hubs
<1>3. /\ key' \in 0..MaxTries \cup {Torn} /\ cert' \in 1..Len(minted) \cup {Torn}
      /\ chain' \in BOOLEAN
      /\ loaded' \in 1..Len(minted) /\ up' \in BOOLEAN /\ missed' \in BOOLEAN
  BY <1>1 DEF TypeOK, service
<1>4. /\ TypeOK' /\ Ledger' /\ SignedOnce'
      /\ UNCHANGED <<minted, aged, got, backup, tries>>
      /\ got \in 1..Len(minted) /\ minted[got] = tries /\ Due(backup.cert)
      /\ ~scar' => ~scar /\ backup.chain
      /\ deaths' = 0 /\ ~scar' => deaths = 0 /\ ~scar /\ Matches(backup.key, backup.cert)
  BY <1>1, <1>2, <1>3, QuietInv
<1>5. cert = backup.cert /\ (~scar' => chain)
  BY <1>1, <1>4 DEF Pair, Chained, Undoing
<1>6. Pair'
  BY <1>1, <1>4, <1>5 DEF Pair, Installing, Hubs, Due
<1>7. Chained'
  BY <1>1, <1>4, <1>5 DEF Chained, Installing, Undoing, Hubs
<1>8. Serving'
  BY <1>1, <1>4, <1>5 DEF Serving, Installing, Hubs, Matches
<1>9. MismatchHeals'
  BY <1>1 DEF MismatchHeals
<1> QED
  BY <1>4, <1>6, <1>7, <1>8, <1>9

LEMMA WriteCertInv ==
  ASSUME Inv, WriteCert
  PROVE  Inv'
<1> USE DEF Inv
<1>1. /\ agent = "cert" /\ Installing /\ UNCHANGED <<key, chain, service>>
      /\ (cert' = got /\ agent' = "chain") \/ (cert' = Torn /\ agent' = "unkey")
  BY DEF WriteCert, Installing, Hubs
<1>2. Quiet
  BY <1>1, QuietIs DEF WriteCert, Places, Hubs
<1>3. /\ key' \in 0..MaxTries \cup {Torn} /\ cert' \in 1..Len(minted) \cup {Torn}
      /\ chain' \in BOOLEAN
      /\ loaded' \in 1..Len(minted) /\ up' \in BOOLEAN /\ missed' \in BOOLEAN
  BY <1>1 DEF TypeOK, service
<1>4. /\ TypeOK' /\ Ledger' /\ SignedOnce'
      /\ UNCHANGED <<minted, aged, got, backup, tries>>
      /\ got \in 1..Len(minted) /\ minted[got] = tries /\ Due(backup.cert)
      /\ ~scar' => ~scar /\ backup.chain
      /\ deaths' = 0 /\ ~scar' => deaths = 0 /\ ~scar /\ Matches(backup.key, backup.cert)
  BY <1>1, <1>2, <1>3, QuietInv
<1>5. key = tries /\ (~scar' => chain)
  BY <1>1, <1>4 DEF Pair, Chained, Undoing
<1>6. Pair'
  BY <1>1, <1>4, <1>5 DEF Pair, Installing, Hubs, Due
<1>7. Chained'
  BY <1>1, <1>4, <1>5 DEF Chained, Installing, Undoing, Hubs
<1>8. Serving'
  BY <1>1, <1>4, <1>5 DEF Serving, Installing, Hubs, Matches
<1>9. MismatchHeals'
  BY <1>1 DEF MismatchHeals
<1> QED
  BY <1>4, <1>6, <1>7, <1>8, <1>9

LEMMA WriteChainInv ==
  ASSUME Inv, WriteChain
  PROVE  Inv'
<1> USE DEF Inv
<1>1. /\ agent = "chain" /\ Installing /\ UNCHANGED <<key, cert, service>>
      /\ (chain' = TRUE /\ agent' = "check") \/ (chain' = FALSE /\ agent' = "unkey")
  BY DEF WriteChain, Installing, Hubs
<1>2. Quiet
  BY <1>1, QuietIs DEF WriteChain, Places, Hubs
<1>3. /\ key' \in 0..MaxTries \cup {Torn} /\ cert' \in 1..Len(minted) \cup {Torn}
      /\ chain' \in BOOLEAN
      /\ loaded' \in 1..Len(minted) /\ up' \in BOOLEAN /\ missed' \in BOOLEAN
  BY <1>1 DEF TypeOK, service
<1>4. /\ TypeOK' /\ Ledger' /\ SignedOnce'
      /\ UNCHANGED <<minted, aged, got, backup, tries>>
      /\ got \in 1..Len(minted) /\ minted[got] = tries /\ Due(backup.cert)
      /\ ~scar' => ~scar /\ backup.chain
      /\ deaths' = 0 /\ ~scar' => deaths = 0 /\ ~scar /\ Matches(backup.key, backup.cert)
  BY <1>1, <1>2, <1>3, QuietInv
<1>5. key = tries /\ cert = got
  BY <1>1, <1>4 DEF Pair
<1>6. Pair'
  BY <1>1, <1>4, <1>5 DEF Pair, Installing, Hubs, Due
<1>7. Chained'
  BY <1>1, <1>4, <1>5 DEF Chained, Installing, Undoing, Hubs
<1>8. Serving'
  BY <1>1, <1>4, <1>5 DEF Serving, Installing, Hubs, Matches
<1>9. MismatchHeals'
  BY <1>1 DEF MismatchHeals
<1> QED
  BY <1>4, <1>6, <1>7, <1>8, <1>9

LEMMA CheckStepInv ==
  ASSUME Inv, Check
  PROVE  Inv'
<1> USE DEF Inv
<1>1. /\ agent = "check" /\ Installing /\ UNCHANGED <<key, cert, chain, service>>
      /\ agent' \in {"reload", "unkey"}
  BY DEF Check, Installing, Hubs, files
<1>2. Quiet
  BY <1>1, QuietIs DEF Check, Places, Hubs
<1>3. /\ key' \in 0..MaxTries \cup {Torn} /\ cert' \in 1..Len(minted) \cup {Torn}
      /\ chain' \in BOOLEAN
      /\ loaded' \in 1..Len(minted) /\ up' \in BOOLEAN /\ missed' \in BOOLEAN
  BY <1>1 DEF TypeOK, service
<1>4. /\ TypeOK' /\ Ledger' /\ SignedOnce'
      /\ UNCHANGED <<minted, aged, got, backup, tries>>
      /\ got \in 1..Len(minted) /\ minted[got] = tries /\ Due(backup.cert)
      /\ ~scar' => ~scar /\ backup.chain
      /\ deaths' = 0 /\ ~scar' => deaths = 0 /\ ~scar /\ Matches(backup.key, backup.cert)
  BY <1>1, <1>2, <1>3, QuietInv
<1>5. key = tries /\ cert = got /\ chain
  BY <1>1, <1>4 DEF Pair, Chained
<1>6. Pair'
  BY <1>1, <1>4, <1>5 DEF Pair, Installing, Hubs, Due
<1>7. Chained'
  BY <1>1, <1>4, <1>5 DEF Chained, Installing, Undoing, Hubs
<1>8. Serving'
  BY <1>1, <1>4, <1>5 DEF Serving, Installing, Hubs, Matches
<1>9. MismatchHeals'
  BY <1>1 DEF MismatchHeals
<1> QED
  BY <1>4, <1>6, <1>7, <1>8, <1>9

LEMMA ReloadInv ==
  ASSUME Inv, Reload
  PROVE  Inv'
<1> USE ServerCertAssumption DEF Inv
<1>1. /\ agent = "reload" /\ Installing /\ UNCHANGED <<key, cert, chain, up>>
      /\ \/ agent' = "look" /\ Loads
         \/ agent' = "unkey" /\ (Loads \/ UNCHANGED <<loaded, missed>>)
  BY DEF Reload, Installing, Hubs, files
<1>2. Quiet
  BY <1>1, QuietIs DEF Reload, Places, Hubs
<1>3. /\ key' \in 0..MaxTries \cup {Torn} /\ cert' \in 1..Len(minted) \cup {Torn}
      /\ chain' \in BOOLEAN
      /\ loaded' \in 1..Len(minted) /\ up' \in BOOLEAN /\ missed' \in BOOLEAN
  BY <1>1 DEF TypeOK, Loads, Sound, Matches
<1>4. /\ TypeOK' /\ Ledger' /\ SignedOnce'
      /\ UNCHANGED <<minted, aged, got, backup, tries>>
      /\ got \in 1..Len(minted) /\ minted[got] = tries /\ Due(backup.cert)
      /\ ~scar' => ~scar /\ backup.chain
      /\ deaths' = 0 /\ ~scar' => deaths = 0 /\ ~scar /\ Matches(backup.key, backup.cert)
  BY <1>1, <1>2, <1>3, QuietInv
<1>5. key = tries /\ cert = got /\ chain /\ Sound
  BY <1>1, <1>4 DEF Pair, Chained, Sound, Matches, TypeOK
<1>6. Pair'
  BY <1>1, <1>4, <1>5 DEF Pair, Installing, Hubs, Due
<1>7. Chained'
  BY <1>1, <1>4, <1>5 DEF Chained, Installing, Undoing, Hubs
<1>8. Serving'
  BY <1>1, <1>4, <1>5 DEF Serving, Installing, Hubs, Matches, Loads
<1>9. MismatchHeals'
  BY <1>1 DEF MismatchHeals
<1> QED
  BY <1>4, <1>6, <1>7, <1>8, <1>9

LEMMA LookInv ==
  ASSUME Inv, Look
  PROVE  Inv'
<1> USE ServerCertAssumption DEF Inv
<1>1. /\ agent = "look" /\ Installing /\ UNCHANGED <<key, cert, chain, loaded, missed>>
      /\ \/ agent' = "rest" /\ up /\ UNCHANGED up
         \/ agent' = "unkey" /\ up' \in {FALSE, up}
  BY DEF Look, Installing, Hubs, TypeOK, files
<1>2. Quiet
  BY <1>1, QuietIs DEF Look, Places, Hubs
<1>3. /\ key' \in 0..MaxTries \cup {Torn} /\ cert' \in 1..Len(minted) \cup {Torn}
      /\ chain' \in BOOLEAN
      /\ loaded' \in 1..Len(minted) /\ up' \in BOOLEAN /\ missed' \in BOOLEAN
  BY <1>1 DEF TypeOK
<1>4. /\ TypeOK' /\ Ledger' /\ SignedOnce'
      /\ UNCHANGED <<minted, aged, got, backup, tries>>
      /\ got \in 1..Len(minted) /\ minted[got] = tries /\ Due(backup.cert)
      /\ ~scar' => ~scar /\ backup.chain
      /\ deaths' = 0 /\ ~scar' => deaths = 0 /\ ~scar /\ Matches(backup.key, backup.cert)
  BY <1>1, <1>2, <1>3, QuietInv
<1>5. key = tries /\ cert = got /\ chain /\ Sound /\ Sound'
  BY <1>1, <1>4 DEF Pair, Chained, Sound, Matches, TypeOK
<1>6. Pair'
  BY <1>1, <1>4, <1>5 DEF Pair, Installing, Hubs, Due
<1>7. Chained'
  BY <1>1, <1>4, <1>5 DEF Chained, Installing, Undoing, Hubs
<1>8. Serving'
  BY <1>1, <1>4, <1>5 DEF Serving, Installing, Hubs, Matches, Sound
<1>9. MismatchHeals'
  BY <1>5 DEF MismatchHeals
<1> QED
  BY <1>4, <1>6, <1>7, <1>8, <1>9

LEMMA RestoreKeyInv ==
  ASSUME Inv, RestoreKey
  PROVE  Inv'
<1> USE DEF Inv
<1>1. /\ agent = "unkey" /\ Installing /\ UNCHANGED <<cert, chain, service>>
      /\ \/ key' = backup.key /\ agent' = "uncert"
         \/ key' = Torn /\ agent' = "rest" /\ scar' = TRUE
  BY DEF RestoreKey, Installing, Hubs, Cut
<1>2. Quiet
  BY <1>1, QuietIs DEF RestoreKey, Places, Hubs
<1>3. /\ key' \in 0..MaxTries \cup {Torn} /\ cert' \in 1..Len(minted) \cup {Torn}
      /\ chain' \in BOOLEAN
      /\ loaded' \in 1..Len(minted) /\ up' \in BOOLEAN /\ missed' \in BOOLEAN
  BY <1>1 DEF TypeOK, service
<1>4. /\ TypeOK' /\ Ledger' /\ SignedOnce'
      /\ UNCHANGED <<minted, aged, got, backup, tries>>
      /\ got \in 1..Len(minted) /\ minted[got] = tries /\ Due(backup.cert)
      /\ ~scar' => ~scar /\ backup.chain
      /\ deaths' = 0 /\ ~scar' => deaths = 0 /\ ~scar /\ Matches(backup.key, backup.cert)
  BY <1>1, <1>2, <1>3, QuietInv
<1>6. Pair'
  BY <1>1, <1>4 DEF Pair, Installing, Hubs, Due
<1>7. Chained'
  BY <1>1, <1>4 DEF Chained, Installing, Undoing, Hubs
<1>8. Serving'
  BY <1>1, <1>4 DEF Serving, Installing, Hubs, Matches
<1>9. MismatchHeals'
  BY <1>1 DEF MismatchHeals
<1> QED
  BY <1>4, <1>6, <1>7, <1>8, <1>9

LEMMA RestoreCertInv ==
  ASSUME Inv, RestoreCert
  PROVE  Inv'
<1> USE DEF Inv
<1>1. /\ agent = "uncert" /\ Installing /\ UNCHANGED <<key, chain, service>>
      /\ \/ cert' = backup.cert /\ agent' = "unchain"
         \/ cert' = Torn /\ agent' = "rest" /\ scar' = TRUE
  BY DEF RestoreCert, Installing, Hubs, Cut
<1>2. Quiet
  BY <1>1, QuietIs DEF RestoreCert, Places, Hubs
<1>3. /\ key' \in 0..MaxTries \cup {Torn} /\ cert' \in 1..Len(minted) \cup {Torn}
      /\ chain' \in BOOLEAN
      /\ loaded' \in 1..Len(minted) /\ up' \in BOOLEAN /\ missed' \in BOOLEAN
  BY <1>1 DEF TypeOK, Pair, Due, service, Serials
<1>4. /\ TypeOK' /\ Ledger' /\ SignedOnce'
      /\ UNCHANGED <<minted, aged, got, backup, tries>>
      /\ got \in 1..Len(minted) /\ minted[got] = tries /\ Due(backup.cert)
      /\ ~scar' => ~scar /\ backup.chain
      /\ deaths' = 0 /\ ~scar' => deaths = 0 /\ ~scar /\ Matches(backup.key, backup.cert)
  BY <1>1, <1>2, <1>3, QuietInv
<1>5. key = backup.key
  BY <1>1, <1>4 DEF Pair
<1>6. Pair'
  BY <1>1, <1>4, <1>5 DEF Pair, Installing, Hubs, Due
<1>7. Chained'
  BY <1>1, <1>4, <1>5 DEF Chained, Installing, Undoing, Hubs
<1>8. Serving'
  BY <1>1, <1>4, <1>5 DEF Serving, Installing, Hubs, Matches
<1>9. MismatchHeals'
  BY <1>1 DEF MismatchHeals
<1> QED
  BY <1>4, <1>6, <1>7, <1>8, <1>9

LEMMA RestoreChainInv ==
  ASSUME Inv, RestoreChain
  PROVE  Inv'
<1> USE DEF Inv
<1>1. /\ agent = "unchain" /\ Installing /\ UNCHANGED <<key, cert, service>>
      /\ \/ chain' = backup.chain /\ agent' = "reapply"
         \/ chain' = FALSE /\ agent' = "rest" /\ scar' = TRUE
  BY DEF RestoreChain, Installing, Hubs, Cut
<1>2. Quiet
  BY <1>1, QuietIs DEF RestoreChain, Places, Hubs
<1>3. /\ key' \in 0..MaxTries \cup {Torn} /\ cert' \in 1..Len(minted) \cup {Torn}
      /\ chain' \in BOOLEAN
      /\ loaded' \in 1..Len(minted) /\ up' \in BOOLEAN /\ missed' \in BOOLEAN
  BY <1>1 DEF TypeOK, service
<1>4. /\ TypeOK' /\ Ledger' /\ SignedOnce'
      /\ UNCHANGED <<minted, aged, got, backup, tries>>
      /\ got \in 1..Len(minted) /\ minted[got] = tries /\ Due(backup.cert)
      /\ ~scar' => ~scar /\ backup.chain
      /\ deaths' = 0 /\ ~scar' => deaths = 0 /\ ~scar /\ Matches(backup.key, backup.cert)
  BY <1>1, <1>2, <1>3, QuietInv
<1>5. key = backup.key /\ cert = backup.cert
  BY <1>1, <1>4 DEF Pair
<1>6. Pair'
  BY <1>1, <1>4, <1>5 DEF Pair, Installing, Hubs, Due
<1>7. Chained'
  BY <1>1, <1>4, <1>5 DEF Chained, Installing, Undoing, Hubs
<1>8. Serving'
  BY <1>1, <1>4, <1>5 DEF Serving, Installing, Hubs, Matches
<1>9. MismatchHeals'
  BY <1>1 DEF MismatchHeals
<1> QED
  BY <1>4, <1>6, <1>7, <1>8, <1>9

LEMMA ReapplyInv ==
  ASSUME Inv, Reapply
  PROVE  Inv'
<1> USE ServerCertAssumption DEF Inv
<1>1. /\ agent = "reapply" /\ Installing /\ UNCHANGED <<key, cert, chain, up>>
      /\ agent' = "rest" /\ (Loads \/ (UNCHANGED loaded /\ missed' = TRUE))
  BY DEF Reapply, Installing, Hubs, files
<1>2. Quiet
  BY <1>1, QuietIs DEF Reapply, Places, Hubs
<1>3. /\ key' \in 0..MaxTries \cup {Torn} /\ cert' \in 1..Len(minted) \cup {Torn}
      /\ chain' \in BOOLEAN
      /\ loaded' \in 1..Len(minted) /\ up' \in BOOLEAN /\ missed' \in BOOLEAN
  BY <1>1 DEF TypeOK, Loads, Sound, Matches
<1>4. /\ TypeOK' /\ Ledger' /\ SignedOnce'
      /\ UNCHANGED <<minted, aged, got, backup, tries>>
      /\ got \in 1..Len(minted) /\ minted[got] = tries /\ Due(backup.cert)
      /\ ~scar' => ~scar /\ backup.chain
      /\ deaths' = 0 /\ ~scar' => deaths = 0 /\ ~scar /\ Matches(backup.key, backup.cert)
  BY <1>1, <1>2, <1>3, QuietInv
<1>5. /\ key = backup.key /\ cert = backup.cert
      /\ ~scar' => chain
  BY <1>1, <1>4 DEF Pair, Chained, Undoing
<1>6. Pair'
  BY <1>1, <1>4, <1>5 DEF Pair, Installing, Hubs, Due
<1>7. Chained'
  BY <1>1, <1>4, <1>5 DEF Chained, Installing, Undoing, Hubs
<1>8. Serving'
  BY <1>1, <1>4, <1>5 DEF Serving, Installing, Hubs, Matches, Sound, Loads
<1>9. MismatchHeals'
  BY <1>1, <1>4, <1>5 DEF MismatchHeals, Due
<1> QED
  BY <1>4, <1>6, <1>7, <1>8, <1>9

(***************************************************************************)
(* Between renewals, and deaths.                                           *)
(***************************************************************************)

\* Starting the service, or loading the pair with a reload, changes only
\* what the service is.
LEMMA ServiceInv ==
  ASSUME Inv, agent = "rest", UNCHANGED <<hub, files, agent, memory, budget>>,
         loaded' \in 1..Len(minted), up' \in BOOLEAN, missed' \in BOOLEAN,
         Sound => (up' => loaded' = cert)
  PROVE  Inv'
<1> USE DEF Inv
<1>1. TypeOK'
  BY DEF TypeOK, hub, files, memory, budget
<1>2. Ledger' /\ SignedOnce' /\ Pair' /\ Chained' /\ MismatchHeals'
  BY DEF Ledger, HasCert, SignedOnce, Pair, Chained, MismatchHeals, Installing, Undoing,
         Sound, Matches, Due, hub, files, memory, budget
<1>3. Serving'
  BY DEF Serving, Chained, Undoing, Installing, Sound, Matches, hub, files, budget
<1> QED
  BY <1>1, <1>2, <1>3

LEMMA CrlInstallInv ==
  ASSUME Inv, CrlInstall
  PROVE  Inv'
<1>1. /\ loaded' = cert /\ up' = up /\ missed' = FALSE
      /\ cert \in 1..Len(minted) /\ up \in BOOLEAN
  BY DEF CrlInstall, Loads, Sound, Matches, Inv, TypeOK
<1> QED
  BY <1>1, ServiceInv DEF CrlInstall, Smooth

LEMMA AdapterInstallInv ==
  ASSUME Inv, AdapterInstall
  PROVE  Inv'
<1>1. loaded' \in 1..Len(minted) /\ up' \in BOOLEAN /\ missed' \in BOOLEAN
  BY DEF AdapterInstall, Start, Sound, Matches, Inv, TypeOK
<1>2. Sound => (up' => loaded' = cert)
  BY DEF AdapterInstall, Start
<1> QED
  BY <1>1, <1>2, ServiceInv DEF AdapterInstall, Smooth

LEMMA DiesInv ==
  ASSUME Inv, Dies
  PROVE  Inv'
<1> USE ServerCertAssumption DEF Inv
<1>1. /\ UNCHANGED <<minted, newest, aged, call, backup, got, tries, faults>>
      /\ deaths' = deaths + 1 /\ deaths < MaxDeaths /\ agent' = "rest"
      /\ Whole \/ TornKey \/ TornCert \/ TornChain
      /\ scar' = (scar \/ Undoing \/ TornCert \/ TornChain)
  BY DEF Dies, Undoing, hub, memory
<1>2. /\ key' \in 0..MaxTries \cup {Torn} /\ cert' \in 1..Len(minted) \cup {Torn}
      /\ chain' \in BOOLEAN
  BY <1>1 DEF Whole, TornKey, TornCert, TornChain, TypeOK, files
<1>3. loaded' \in 1..Len(minted) /\ up' \in BOOLEAN /\ missed' \in BOOLEAN
  BY <1>2 DEF Dies, TypeOK, service
<1>4. TypeOK'
  <2>1. scar' \in BOOLEAN
    BY <1>1
  <2> QED
    BY <1>1, <1>2, <1>3, <2>1 DEF TypeOK, Places
<1>5. Ledger' /\ SignedOnce'
  BY <1>1 DEF Ledger, HasCert, SignedOnce
<1>6. Pair'
  BY <1>1 DEF Pair, Installing, Hubs
<1>7. Serving'
  BY <1>1 DEF Serving, TypeOK
<1>8. ~scar' => ~scar /\ ~Undoing /\ ~TornCert /\ ~TornChain
  BY <1>1
<1>9. ~scar' => UNCHANGED <<cert, chain>> /\ chain'
  BY <1>1, <1>8 DEF Whole, TornKey, Chained, files
<1>10. Chained'
  BY <1>1, <1>9 DEF Chained, Installing, Hubs
<1>11. MismatchHeals'
  <2> SUFFICES ASSUME scar' = FALSE, ~Sound'
               PROVE  Due(cert)'
    BY <1>1 DEF MismatchHeals
  <2>1. ~scar /\ ~Undoing /\ ~TornCert /\ ~TornChain /\ chain' /\ UNCHANGED <<cert, chain>>
    BY <1>8, <1>9
  <2>2. Due(cert)
    <3>1. CASE agent = "rest"
      BY <1>1, <2>1, <3>1 DEF Whole, TornKey, MismatchHeals, Sound, Matches, files
    <3>2. CASE agent \in Hubs
      BY <3>2 DEF Pair
    <3>3. CASE agent \in {"key", "cert", "reapply"}
      BY <3>3 DEF Pair, Installing, Hubs
    <3>4. CASE agent \in {"chain", "check", "reload", "look"}
      <4>1. key = tries /\ cert = got /\ minted[got] = tries /\ cert # Torn
        BY <3>4 DEF Pair, Installing, Hubs, TypeOK
      <4>2. key' = key
        BY <1>1, <2>1, <3>4 DEF Whole, TornKey, files
      <4> QED
        BY <1>1, <2>1, <4>1, <4>2 DEF Sound, Matches
    <3> QED
      BY <2>1, <3>1, <3>2, <3>3, <3>4 DEF TypeOK, Places, Hubs, Undoing
  <2> QED
    BY <1>1, <2>1, <2>2 DEF Due
<1> QED
  BY <1>4, <1>5, <1>6, <1>7, <1>10, <1>11

THEOREM NextInv == Inv /\ [Next]_vars => Inv'
<1> SUFFICES ASSUME Inv, [Next]_vars
             PROVE  Inv'
  OBVIOUS
<1>1. CASE UNCHANGED vars
  BY <1>1 DEF Inv, TypeOK, Ledger, HasCert, SignedOnce, Pair, Chained, Serving, MismatchHeals,
              Installing, Undoing, Sound, Matches, Due, vars, hub, files, service, memory, budget
<1>2. CASE \E h \in Hubs : Mint(h) \/ Record(h) \/ HandlerDies(h)
  BY <1>2, MintInv, RecordInv, HandlerDiesInv
<1>3. CASE Pass
  BY <1>3, CheckInInv, AnsweredInv, GivesUpInv, WriteKeyInv, WriteCertInv, WriteChainInv,
     CheckStepInv, ReloadInv, LookInv, RestoreKeyInv, RestoreCertInv, RestoreChainInv,
     ReapplyInv DEF Pass
<1>4. CASE Age \/ CrlInstall \/ AdapterInstall \/ Dies
  BY <1>4, AgeInv, CrlInstallInv, AdapterInstallInv, DiesInv
<1> QED
  BY <1>1, <1>2, <1>3, <1>4 DEF Next

THEOREM SpecInv == Spec => []Inv
BY InitInv, NextInv, PTL DEF Spec

(***************************************************************************)
(* The theorems.                                                           *)
(***************************************************************************)

\* The variables of the renewal keep their types: no serial is recorded or
\* loaded that the hub has not signed (service.issue_server_cert, site_agent.run_once).
THEOREM SpecTypeOK == Spec => []TypeOK
BY SpecInv, PTL DEF Inv

\* While no agent dies and no rollback fails, whatever else does (is-active with
\* the service up included), _install_with_safety leaves files that -XC accepts,
\* and a running service with the pair on the disk unless it has missed the
\* rollback's own reload.
THEOREM SpecServesDisk == Spec => []ServesDisk
<1>1. Inv => ServesDisk
  BY DEF Inv, Serving, Chained, Undoing, Installing, Sound, ServesDisk
<1> QED
  BY <1>1, SpecInv, PTL

\* A death between two writes of _install_with_safety that tears neither the
\* certificate nor the chain leaves files that -XC accepts, or the old
\* certificate, which the next check-in finds due.
THEOREM SpecMismatchHeals == Spec => []MismatchHeals
BY SpecInv, PTL DEF Inv

\* A request repeated at the secondary hub is signed once.
THEOREM SpecSignedOnce == Spec => []SignedOnce
BY SpecInv, PTL DEF Inv
(***************************************************************************)
(* The inductive invariant of SiteAccess.                                  *)
(***************************************************************************)

\* A binding's role exists.
BoundRolesExist == \A r \in Roles : binding[r] # NoBinding => role[r] # "none"

\* Only the platform is about to change a platform switch, and a tenant's
\* superadmin is about to write a row of the tenant.
EditsAreOwn ==
  \A a \in Admins : edit[a].busy =>
    /\ edit[a].read # NoBinding /\ edit[a].want.platform # edit[a].read.platform
       => OfPlatform(a)
    /\ ~OfPlatform(a) => edit[a].read # NoBinding /\ SubOf[edit[a].role] = ScopeOf[a]

\* A row that a request has read is still there: bindings are not deleted.
RowsStay ==
  \A a \in Admins : edit[a].busy /\ edit[a].read # NoBinding =>
    binding[edit[a].role] # NoBinding

AccessInv == AccessTypeOK /\ BoundRolesExist /\ EditsAreOwn /\ RowsStay

LEMMA MergeType ==
  ASSUME NEW x \in Bindings, NEW y \in Bindings, NEW z \in Bindings
  PROVE  Merge(x, y, z) \in Bindings
BY DEF Merge, Bindings

THEOREM InitAccess == AccessInit => AccessInv
BY DEF AccessInit, AccessInv, AccessTypeOK, BoundRolesExist, EditsAreOwn, RowsStay, Idle, Edits

\* Taking up a request: the row it has read is the current one.
LEMMA ReadsAccess ==
  ASSUME AccessInv, NEW a \in Admins, NEW r \in Roles, NEW want \in Bindings,
         Reads(a, r, want),
         binding[r] # NoBinding /\ want.platform # binding[r].platform => OfPlatform(a),
         ~OfPlatform(a) => binding[r] # NoBinding /\ SubOf[r] = ScopeOf[a]
  PROVE  AccessInv'
<1> USE DEF AccessInv, AccessTypeOK
<1>1. AccessTypeOK'
  BY DEF Reads, Edits
<1>2. BoundRolesExist'
  BY DEF Reads, BoundRolesExist
<1>3. EditsAreOwn'
  BY DEF Reads, EditsAreOwn, OfPlatform, Edits, Idle
<1>4. RowsStay'
  BY DEF Reads, RowsStay, Edits, Idle
<1> QED
  BY <1>1, <1>2, <1>3, <1>4

LEMMA WriteAccess ==
  ASSUME AccessInv, NEW a \in Admins, Write(a)
  PROVE  AccessInv'
<1> USE DEF AccessInv, AccessTypeOK
<1> DEFINE e == edit[a]
<1>1. e \in Edits
  BY DEF Write, Idle
<1>2. \A r \in Roles : r # e.role => binding'[r] = binding[r]
  BY DEF Write
<1>4. ASSUME binding' \in [Roles -> Bindings \union {NoBinding}],
             binding'[e.role] # NoBinding => role[e.role] # "none",
             binding[e.role] # NoBinding => binding'[e.role] # NoBinding
      PROVE  AccessInv'
  <2>1. AccessTypeOK'
    BY <1>4 DEF Write
  <2>2. BoundRolesExist'
    BY <1>1, <1>2, <1>4 DEF Write, BoundRolesExist, Edits
  <2>3. EditsAreOwn'
    BY DEF Write, EditsAreOwn, OfPlatform, Idle
  <2>4. RowsStay'
    BY <1>1, <1>2, <1>4 DEF Write, RowsStay, Idle, Edits
  <2> QED
    BY <2>1, <2>2, <2>3, <2>4
<1>3. CASE e.read = NoBinding
  <2>1. binding' \in [Roles -> Bindings \union {NoBinding}]
    BY <1>1, <1>3 DEF Write, Edits
  <2>2. binding'[e.role] # NoBinding => role[e.role] # "none"
    BY <1>1, <1>3 DEF Write, Edits, BoundRolesExist
  <2>3. binding[e.role] # NoBinding => binding'[e.role] # NoBinding
    BY <1>1, <1>3 DEF Write, Edits
  <2> QED
    BY <1>1, <1>2, <2>1, <2>2, <2>3, <1>4
<1>5. CASE e.read # NoBinding
  <2>1. binding[e.role] \in Bindings /\ e.read \in Bindings /\ e.want \in Bindings
    BY <1>1, <1>5 DEF Write, Edits, RowsStay
  <2>2. binding' = [binding EXCEPT ![e.role] = Merge(e.read, e.want, binding[e.role])]
    BY <1>5 DEF Write
  <2>3. Merge(e.read, e.want, binding[e.role]) \in Bindings
    BY <2>1, MergeType
  <2> QED
    BY <1>1, <1>2, <2>1, <2>2, <2>3, <1>4, MarkAssumption DEF Edits, BoundRolesExist
<1> QED
  BY <1>3, <1>5

\* The requests that change a table at once.
LEMMA TablesAccess ==
  ASSUME AccessInv, NEW a \in Admins,
         \/ \E r \in Roles : CreateRole(a, r) \/ DeleteRole(a, r)
         \/ \E r \in Roles, on \in BOOLEAN : SwitchRole(a, r, on)
         \/ \E s \in Subs : Authorize(a, s) \/ Deauthorize(a, s)
         \/ \E on \in BOOLEAN : SetSegmentation(a, on)
  PROVE  AccessInv'
<1> USE DEF AccessInv, AccessTypeOK
<1>1. ASSUME NEW r \in Roles, CreateRole(a, r) \/ DeleteRole(a, r)
      PROVE  AccessInv'
  BY <1>1 DEF CreateRole, DeleteRole, BoundRolesExist, EditsAreOwn, OfPlatform, RowsStay
<1>2. ASSUME NEW r \in Roles, NEW on \in BOOLEAN, SwitchRole(a, r, on)
      PROVE  AccessInv'
  BY <1>2 DEF SwitchRole, BoundRolesExist, EditsAreOwn, OfPlatform, RowsStay
<1>3. ASSUME NEW s \in Subs, Authorize(a, s) \/ Deauthorize(a, s)
      PROVE  AccessInv'
  BY <1>3 DEF Authorize, Deauthorize, BoundRolesExist, EditsAreOwn, OfPlatform, RowsStay
<1>4. ASSUME NEW on \in BOOLEAN, SetSegmentation(a, on)
      PROVE  AccessInv'
  BY <1>4 DEF SetSegmentation, BoundRolesExist, EditsAreOwn, OfPlatform, RowsStay
<1> QED
  BY <1>1, <1>2, <1>3, <1>4

LEMMA SwitchAccess ==
  ASSUME AccessInv, NEW a \in Admins, NEW r \in Roles, NEW on \in BOOLEAN,
         SwitchBinding(a, r, on) \/ SwitchPlatform(a, r, on)
  PROVE  AccessInv'
<1>0. binding[r] \in Bindings
  BY DEF SwitchBinding, SwitchPlatform, AccessInv, AccessTypeOK
<1>1. CASE SwitchBinding(a, r, on)
  <2> DEFINE want == [binding[r] EXCEPT !.tenant = on]
  <2>1. want \in Bindings /\ want.platform = binding[r].platform
    BY <1>0 DEF Bindings
  <2>2. Reads(a, r, want) /\ binding[r] # NoBinding /\ CanManage(a, SubOf[r])
    BY <1>1 DEF SwitchBinding
  <2>3. ~OfPlatform(a) => SubOf[r] = ScopeOf[a]
    BY <2>2 DEF CanManage, OfPlatform
  <2> QED
    BY <2>1, <2>2, <2>3, ReadsAccess
<1>2. CASE SwitchPlatform(a, r, on)
  <2> DEFINE want == [binding[r] EXCEPT !.platform = on]
  <2>1. want \in Bindings
    BY <1>0 DEF Bindings
  <2>2. Reads(a, r, want) /\ OfPlatform(a)
    BY <1>2 DEF SwitchPlatform
  <2> QED
    BY <2>1, <2>2, ReadsAccess
<1> QED
  BY <1>1, <1>2

LEMMA ConfigureAccess ==
  ASSUME AccessInv, NEW a \in Admins, NEW r \in Roles, NEW v, NEW f,
         NEW p \in BOOLEAN, NEW t \in BOOLEAN,
         ConfigureByForm(a, r, v, f) \/ ConfigureByDraft(a, r, v, f, p, t)
  PROVE  AccessInv'
<1>0. OfPlatform(a) /\ v \in Vlans /\ f \in Vlans \union {NoVlan}
  BY DEF ConfigureByForm, ConfigureByDraft, ValidVlans
<1>1. CASE ConfigureByForm(a, r, v, f)
  <2> DEFINE fresh == [vlan |-> v, fallback |-> f, platform |-> TRUE, tenant |-> TRUE]
             want  == IF binding[r] = NoBinding THEN fresh
                      ELSE [binding[r] EXCEPT !.vlan = v, !.fallback = f]
  <2>1. want \in Bindings
    BY <1>0 DEF Bindings, AccessInv, AccessTypeOK
  <2>2. Reads(a, r, want)
    BY <1>1 DEF ConfigureByForm
  <2> HIDE DEF want
  <2> QED
    BY <1>0, <2>1, <2>2, ReadsAccess
<1>2. CASE ConfigureByDraft(a, r, v, f, p, t)
  <2> DEFINE want == [vlan |-> v, fallback |-> f, platform |-> p, tenant |-> t]
  <2>1. want \in Bindings
    BY <1>0 DEF Bindings
  <2>2. Reads(a, r, want)
    BY <1>2 DEF ConfigureByDraft
  <2> QED
    BY <1>0, <2>1, <2>2, ReadsAccess
<1> QED
  BY <1>1, <1>2

THEOREM NextAccess == AccessInv /\ [AccessNext]_accessVars => AccessInv'
<1> SUFFICES ASSUME AccessInv, [AccessNext]_accessVars PROVE AccessInv'
  OBVIOUS
<1>1. CASE UNCHANGED accessVars
  BY <1>1 DEF accessVars, AccessInv, AccessTypeOK, BoundRolesExist, EditsAreOwn, RowsStay, OfPlatform
<1>2. CASE AccessNext
  <2>1. PICK a \in Admins : Step(a)
    BY <1>2 DEF AccessNext
  <2>2. CASE TenantRequest(a)
    BY <2>2, TablesAccess, SwitchAccess DEF TenantRequest
  <2>3. CASE PlatformRequest(a)
    <3>1. ASSUME NEW r \in Roles, NEW v \in Numbers, NEW f \in Numbers \union {NoVlan},
                 ConfigureByForm(a, r, v, f)
          PROVE  AccessInv'
      BY <3>1, ConfigureAccess
    <3> QED
      BY <2>3, <3>1, TablesAccess, SwitchAccess, ConfigureAccess DEF PlatformRequest
  <2>4. CASE Write(a)
    BY <2>4, WriteAccess
  <2> QED
    BY <2>1, <2>2, <2>3, <2>4 DEF Step
<1> QED
  BY <1>1, <1>2

THEOREM SpecAccess == AccessSpec => []AccessInv
BY InitAccess, NextAccess, PTL DEF AccessSpec

\* The types of every table, and of what every request holds.
THEOREM SpecAccessTypeOK == AccessSpec => []AccessTypeOK
<1>1. AccessInv => AccessTypeOK
  BY DEF AccessInv
<1> QED
  BY <1>1, SpecAccess, PTL

(***************************************************************************)
(* The adapter and the hub decide alike.                                   *)
(***************************************************************************)
Found(s, r) == {e \in Compile : e.sub = s /\ e.role = r}

\* The policy has one entry for a binding of an allowed subsidiary, under the
\* role and its own subsidiary, and none for anything else.
LEMMA FoundIs ==
  ASSUME NEW s \in Subs, NEW r
  PROVE  Found(s, r) = IF /\ r \in Roles /\ SubOf[r] = s
                          /\ binding[r] # NoBinding /\ allow[s] = "on"
                       THEN {Entry(r)} ELSE {}
BY DEF Found, Compile, Entry

\* On a binding, the adapter's evaluation is the hub's: the VLAN that the hub
\* does not check is in range.
LEMMA DecisionsAgree ==
  ASSUME AccessInv, Restricted, NEW s \in Subs, NEW r \in Roles \union {Stranger}
  PROVE  Evaluate(Compile, s, r) = Resolve(s, r)
<1>1. CASE Found(s, r) = {}
  <2>1. Evaluate(Compile, s, r) = Reject
    BY <1>1 DEF Evaluate, Found
  <2>2. ~(r \in Roles /\ SubOf[r] = s /\ binding[r] # NoBinding /\ allow[s] = "on")
    BY <1>1, FoundIs
  <2>3. Resolve(s, r) = Reject
    BY <2>2 DEF Resolve
  <2> QED
    BY <2>1, <2>3
<1>2. CASE Found(s, r) # {}
  <2>1. r \in Roles /\ SubOf[r] = s /\ binding[r] # NoBinding /\ allow[s] = "on"
    BY <1>2, FoundIs
  <2>2. Found(s, r) = {Entry(r)}
    BY <2>1, FoundIs
  <2>3. (CHOOSE x \in Found(s, r) : TRUE) = Entry(r)
    BY <2>2
  <2>4. binding[r] \in Bindings /\ role[r] # "none"
    BY <2>1 DEF AccessInv, AccessTypeOK, BoundRolesExist
  <2>5. binding[r].vlan \in Vlans
    BY <2>4 DEF Bindings
  <2>6. Evaluate(Compile, s, r) =
          IF ~binding[r].platform THEN Reject
          ELSE IF role[r] = "on" /\ binding[r].tenant THEN Primary(binding[r])
               ELSE IF UsableFallback(binding[r]) THEN Fallback(binding[r]) ELSE Reject
    <3> DEFINE e == CHOOSE x \in Found(s, r) : TRUE
    <3>1. Evaluate(Compile, s, r) =
            IF Found(s, r) = {} \/ ~e.row.platform THEN Reject
            ELSE IF e.active /\ e.row.tenant
                 THEN IF e.row.vlan \in Vlans THEN Primary(e.row) ELSE Reject
                 ELSE IF UsableFallback(e.row) THEN Fallback(e.row) ELSE Reject
      BY DEF Evaluate, Found
    <3>2. e = Entry(r)
      BY <2>3
    <3> HIDE DEF e
    <3>3. e.row = binding[r] /\ e.active = (role[r] = "on")
      BY <3>2 DEF Entry
    <3> QED
      BY <1>2, <2>5, <3>1, <3>3
  <2>7. Resolve(s, r) =
          IF ~binding[r].platform THEN Reject
          ELSE IF role[r] = "on" /\ binding[r].tenant THEN Primary(binding[r])
               ELSE IF UsableFallback(binding[r]) THEN Fallback(binding[r]) ELSE Reject
    BY <2>1, <2>4 DEF Resolve
  <2> QED
    BY <2>6, <2>7
<1> QED
  BY <1>1, <1>2

\* The site decides as the hub would, for every number of tenants, roles,
\* bindings and VLANs.
THEOREM SpecAdapterAgrees == AccessSpec => []AdapterAgrees
<1>1. AccessInv => AdapterAgrees
  BY DecisionsAgree DEF AdapterAgrees
<1> QED
  BY <1>1, SpecAccess, PTL

(***************************************************************************)
(* Requests that overlap.                                                  *)
(***************************************************************************)

\* A merge turns the platform switch on only for a request that has read it
\* off and set it on.
LEMMA MergeKeepsBlock ==
  ASSUME NEW x \in Bindings, NEW y \in Bindings, NEW z \in Bindings,
         ~z.platform, Merge(x, y, z).platform
  PROVE  ~x.platform /\ y.platform # x.platform
BY DEF Merge, Bindings

LEMMA BlockStep ==
  ASSUME AccessInv, [AccessNext]_accessVars, NEW r \in Roles,
         binding[r] # NoBinding, ~binding[r].platform, binding'[r].platform
  PROVE  \E a \in Admins : /\ OfPlatform(a) /\ edit[a].busy /\ edit[a].role = r
                           /\ edit[a].read # NoBinding /\ ~edit[a].read.platform
<1>0. binding' # binding
  OBVIOUS
<1>a. PICK a \in Admins : Step(a)
  BY <1>0 DEF AccessNext, accessVars
<1>1. Write(a)
  <2>1. ~TenantRequest(a)
    BY <1>0 DEF TenantRequest, CreateRole, DeleteRole, SwitchRole, SwitchBinding, Reads
  <2>2. ~PlatformRequest(a)
    BY <1>0 DEF PlatformRequest, Authorize, Deauthorize, SetSegmentation, SwitchPlatform,
       ConfigureByForm, ConfigureByDraft, Reads
  <2> QED
    BY <1>a, <2>1, <2>2 DEF Step
<1> DEFINE e == edit[a]
<1>2. e \in Edits /\ e.busy /\ binding[r] \in Bindings
  BY <1>1 DEF Write, Idle, AccessInv, AccessTypeOK
<1>3. e.role = r
  BY <1>1, <1>2 DEF Write, AccessInv, AccessTypeOK
<1>4. e.read # NoBinding
  BY <1>1, <1>2, <1>3 DEF Write, AccessInv, AccessTypeOK
<1>5. binding'[r] = Merge(e.read, e.want, binding[r])
  BY <1>1, <1>2, <1>3, <1>4 DEF Write, AccessInv, AccessTypeOK
<1>6. e.read \in Bindings /\ e.want \in Bindings
  BY <1>2, <1>4 DEF Edits
<1>7. ~e.read.platform /\ e.want.platform # e.read.platform
  BY <1>2, <1>5, <1>6, MergeKeepsBlock
<1>8. OfPlatform(a)
  BY <1>2, <1>4, <1>7 DEF AccessInv, EditsAreOwn
<1> QED
  BY <1>2, <1>3, <1>4, <1>7, <1>8

\* A block of the platform is lifted only by a platform superadmin who has
\* seen it.
THEOREM SpecBlockSurvivesOverlap == AccessSpec => BlockSurvivesOverlap
<1>1. AccessInv /\ [AccessNext]_accessVars =>
        [\A r \in Roles :
           /\ binding[r] # NoBinding /\ ~binding[r].platform
           /\ binding'[r].platform
           => \E a \in Admins : /\ OfPlatform(a) /\ edit[a].busy /\ edit[a].role = r
                                /\ edit[a].read # NoBinding /\ ~edit[a].read.platform]_accessVars
  BY BlockStep
<1> QED
  BY <1>1, SpecAccess, PTL DEF AccessSpec, BlockSurvivesOverlap

\* A tenant's superadmin leaves the allowlist, and the roles and bindings of
\* other tenants, alone.
LEMMA TenantStep ==
  ASSUME AccessInv, NEW a \in Admins, ~OfPlatform(a), Step(a)
  PROVE  /\ allow' = allow
         /\ \A q \in Roles : SubOf[q] # ScopeOf[a] =>
              binding'[q] = binding[q] /\ role'[q] = role[q]
<1> USE DEF AccessInv, AccessTypeOK
<1>1. ASSUME NEW r \in Roles, CanManage(a, SubOf[r])
      PROVE  SubOf[r] = ScopeOf[a]
  BY <1>1 DEF CanManage, OfPlatform
<1>2. ASSUME NEW r \in Roles, CreateRole(a, r) \/ DeleteRole(a, r)
      PROVE  allow' = allow /\ \A q \in Roles : SubOf[q] # ScopeOf[a] =>
               binding'[q] = binding[q] /\ role'[q] = role[q]
  BY <1>1, <1>2 DEF CreateRole, DeleteRole
<1>3. ASSUME NEW r \in Roles, NEW on \in BOOLEAN, SwitchRole(a, r, on) \/ SwitchBinding(a, r, on)
      PROVE  allow' = allow /\ \A q \in Roles : SubOf[q] # ScopeOf[a] =>
               binding'[q] = binding[q] /\ role'[q] = role[q]
  BY <1>1, <1>3 DEF SwitchRole, SwitchBinding, Reads
<1>4. CASE Write(a)
  <2>1. edit[a].busy /\ edit[a] \in Edits
    BY <1>4 DEF Write, Idle
  <2>2. SubOf[edit[a].role] = ScopeOf[a]
    BY <2>1 DEF EditsAreOwn
  <2>3. \A q \in Roles : q # edit[a].role => binding'[q] = binding[q]
    BY <1>4 DEF Write
  <2> QED
    BY <1>4, <2>2, <2>3 DEF Write
<1>5. ~PlatformRequest(a)
  BY DEF PlatformRequest, Authorize, Deauthorize, SetSegmentation, SwitchPlatform,
     ConfigureByForm, ConfigureByDraft
<1> QED
  BY <1>2, <1>3, <1>4, <1>5 DEF Step, TenantRequest

LEMMA IsolationStep ==
  ASSUME AccessInv, NEW a \in Admins, ~OfPlatform(a), Step(a),
         NEW s \in Subs \ {ScopeOf[a]}, NEW r \in Roles \union {Stranger}
  PROVE  Evaluate(Compile, s, r)' = Evaluate(Compile, s, r)
<1>1. Found(s, r)' = Found(s, r)
  BY TenantStep DEF Found, Compile, Entry
<1>2. Evaluate(Compile, s, r) =
        LET e == CHOOSE e \in Found(s, r) : TRUE
        IN  IF Found(s, r) = {} \/ ~e.row.platform THEN Reject
            ELSE IF e.active /\ e.row.tenant
                 THEN IF e.row.vlan \in Vlans THEN Primary(e.row) ELSE Reject
                 ELSE IF UsableFallback(e.row) THEN Fallback(e.row) ELSE Reject
  BY DEF Evaluate, Found
<1>3. Evaluate(Compile, s, r)' =
        LET e == CHOOSE e \in Found(s, r)' : TRUE
        IN  IF Found(s, r)' = {} \/ ~e.row.platform THEN Reject
            ELSE IF e.active /\ e.row.tenant
                 THEN IF e.row.vlan \in Vlans THEN Primary(e.row) ELSE Reject
                 ELSE IF UsableFallback(e.row) THEN Fallback(e.row) ELSE Reject
  BY DEF Evaluate, Found, Reject, Primary, Fallback, UsableFallback, Vlans
<1> QED
  BY <1>1, <1>2, <1>3

\* A tenant's superadmin changes the decision on nobody of another tenant.
THEOREM SpecTenantIsolation == AccessSpec => TenantIsolation
<1>1. AccessInv /\ [AccessNext]_accessVars =>
        [\A a \in Admins : ~OfPlatform(a) =>
           \/ \A s \in Subs \ {ScopeOf[a]}, r \in Roles \union {Stranger} :
                Evaluate(Compile, s, r)' = Evaluate(Compile, s, r)
           \/ ~Step(a)]_accessVars
  BY IsolationStep
<1> QED
  BY <1>1, SpecAccess, PTL DEF AccessSpec, TenantIsolation

=============================================================================
