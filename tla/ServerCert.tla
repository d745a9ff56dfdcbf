----------------------------- MODULE ServerCert -----------------------------
(***************************************************************************)
(* The renewal of a site's RADIUS server certificate.                      *)
(*                                                                         *)
(* Every hour the box's agent checks in with the serial of the certificate *)
(* on its disk; the hub answers whether that certificate is past two       *)
(* thirds of its life.  If so the agent makes a fresh key, has the hub     *)
(* sign it (at the primary hub, and with the same request at the secondary *)
(* one when the first gives no answer), and installs key, certificate and  *)
(* CA chain, three files, by the same _install_with_safety as every other  *)
(* file: write, freeradius -XC, reload, is-active, and the old files back  *)
(* on any failure.  The unit is a oneshot on a timer: passes do not        *)
(* overlap.                                                                *)
(*                                                                         *)
(* A key is named by the attempt that made it (0: the installer's), and a  *)
(* certificate by its serial, the place of its request in minted.  What    *)
(* the running service uses is a pair it loaded while it matched.  The     *)
(* chain is the same from all hubs and at all times.                       *)
(* Left out: the files' modes, the staging copies, expiry, a serial the    *)
(* hub does not know (never due), and that an unanswered request may still *)
(* be handled an hour later.                                               *)
(***************************************************************************)
EXTENDS Integers, Sequences

CONSTANTS Torn,       \* a file cut off in the middle of a write
          MaxTries,   \* bound: renewals an agent starts
          MaxFaults,  \* bound: lost answers, failed commands and writes
          MaxDeaths   \* bound: deaths of the agent or of the box

ASSUME ServerCertAssumption ==
    /\ MaxTries \in Nat \ {0} /\ MaxFaults \in Nat /\ MaxDeaths \in Nat
    /\ Torn \notin Int

VARIABLES
    minted,   \* hub: the request each serial was signed for, serials from 1
    newest,   \* hub: site.server_cert_id, 0 for none
    aged,     \* hub's clock: certificates up to this serial are due
    call,     \* the request's handler at each hub
    key,      \* box: the key file
    cert,     \* box: the certificate file
    chain,    \* box: the chain file is whole
    loaded,   \* box: the certificate the service last loaded
    up,       \* box: the service is active
    missed,   \* history: a rollback's own reload failed, and none has worked since
    agent,    \* box: where the agent is in its pass
    backup,   \* agent: what it found in the three files
    got,      \* agent: the certificate of the answer
    tries,    \* renewals started; the last one's key and request
    faults,   \* faults that happened
    deaths,   \* deaths that happened
    scar      \* history: a death tore the certificate or the chain, or a rollback was cut

hub == <<minted, newest, aged, call>>
files == <<key, cert, chain>>
service == <<loaded, up, missed>>
memory == <<backup, got>>
budget == <<tries, faults, deaths, scar>>
vars == <<hub, files, service, agent, memory, budget>>

Hubs == {"primary", "secondary"}
Serials == 1..(2 * MaxTries + 1)
Places == {"rest", "primary", "secondary", "key", "cert", "chain", "check", "reload",
           "look", "unkey", "uncert", "unchain", "reapply"}

TypeOK ==
    /\ minted \in Seq(0..MaxTries) /\ Len(minted) \in Serials
    /\ newest \in 0..Len(minted) /\ aged \in 0..Len(minted)
    /\ call \in [Hubs -> {"none", "asked", "minted", "answered"}]
    /\ key \in 0..MaxTries \cup {Torn}
    /\ cert \in 1..Len(minted) \cup {Torn}
    /\ chain \in BOOLEAN
    /\ loaded \in 1..Len(minted) /\ up \in BOOLEAN /\ missed \in BOOLEAN
    /\ agent \in Places
    /\ backup \in [key : 0..MaxTries \cup {Torn}, cert : Serials \cup {Torn}, chain : BOOLEAN]
    /\ got \in 1..Len(minted)
    /\ tries \in 0..MaxTries /\ faults \in 0..MaxFaults /\ deaths \in 0..MaxDeaths
    /\ scar \in BOOLEAN

Init ==
    /\ minted = <<0>> /\ newest = 0 /\ aged = 0
    /\ call = [h \in Hubs |-> "none"]
    /\ key = 0 /\ cert = 1 /\ chain = TRUE
    /\ loaded = 1 /\ up = TRUE /\ missed = FALSE
    /\ agent = "rest" /\ backup = [key |-> 0, cert |-> 1, chain |-> TRUE] /\ got = 1
    /\ tries = 0 /\ faults = 0 /\ deaths = 0 /\ scar = FALSE

Matches(k, c) == c # Torn /\ k = minted[c]

(* freeradius -XC accepts the files: readable, and the key is the          *)
(* certificate's.                                                          *)
Sound == chain /\ Matches(key, cert)

(* renewal_due: only a certificate whose serial the hub can look up.       *)
Due(c) == c # Torn /\ c <= aged

Fault == faults < MaxFaults /\ faults' = faults + 1 /\ UNCHANGED <<tries, deaths, scar>>
Smooth == UNCHANGED budget

(* What stays of the bound on tries when every fault and every death to    *)
(* come costs one attempt.                                                 *)
Spare == MaxTries - tries - (MaxFaults - faults) - (MaxDeaths - deaths)
-----------------------------------------------------------------------------
(* The hub.                                                                *)

\* Mutant: every request is signed.
SignEach == minted' = Append(minted, tries)

(* issue_server_cert, under the PKI lock up to its commit: a request it    *)
(* has signed before gets the same certificate.                            *)
SignOnce == IF \E s \in DOMAIN minted : minted[s] = tries
            THEN UNCHANGED minted
            ELSE minted' = Append(minted, tries)

Mint(h) ==
    /\ call[h] = "asked"
    /\ SignOnce
    /\ call' = [call EXCEPT ![h] = "minted"]
    /\ UNCHANGED <<newest, aged, files, service, agent, memory>> /\ Smooth

Signed == CHOOSE s \in DOMAIN minted : minted[s] = tries

\* Mutant: the certificates are counted instead of the one signed named.
RecordCount(h) ==
    /\ call[h] = "minted"
    /\ newest' = newest + 1
    /\ call' = [call EXCEPT ![h] = "answered"]
    /\ UNCHANGED <<minted, aged, files, service, agent, memory>> /\ Smooth

(* The rest of the route: the site's certificate is the one just signed,   *)
(* in a second transaction, and the answer follows it.                     *)
Record(h) ==
    /\ call[h] = "minted"
    /\ newest' = Signed
    /\ call' = [call EXCEPT ![h] = "answered"]
    /\ UNCHANGED <<minted, aged, files, service, agent, memory>> /\ Smooth

(* The handler dies, before or between its two transactions, or refuses    *)
(* (the rate limit); the agent sees an error or nothing.                   *)
HandlerDies(h) ==
    /\ call[h] \in {"asked", "minted"} /\ Fault
    /\ call' = [call EXCEPT ![h] = "none"]
    /\ UNCHANGED <<minted, newest, aged, files, service, agent, memory>>

(* Months pass: the certificate on the box's disk is past its threshold.   *)
Age ==
    /\ agent = "rest" /\ cert # Torn /\ cert > aged /\ Spare >= 1
    /\ aged' = cert
    /\ UNCHANGED <<minted, newest, call, files, service, agent, memory>> /\ Smooth
-----------------------------------------------------------------------------
(* The agent's pass.                                                       *)

(* run_once's check-in and the decision taken from it: the serial is read  *)
(* from the disk.  A renewal makes a key and a request of its own.  Bound: *)
(* with the service down attempts fail for ever, only Spare are made.      *)
CheckIn ==
    /\ agent = "rest" /\ Due(cert)
    /\ \A h \in Hubs : call[h] \in {"none", "answered"}
    /\ tries < MaxTries /\ (up \/ Spare >= 2)
    /\ tries' = tries + 1
    /\ agent' = "primary"
    /\ call' = [h \in Hubs |-> IF h = "primary" THEN "asked" ELSE "none"]
    /\ UNCHANGED <<minted, newest, aged, files, service, memory, faults, deaths, scar>>

\* Mutant: the certificate is written before the key.
AnsweredCertFirst ==
    /\ agent \in Hubs /\ call[agent] = "answered"
    /\ got' = Signed
    /\ backup' = [key |-> key, cert |-> cert, chain |-> chain]
    /\ cert' = Signed
    /\ agent' = "key"
    /\ UNCHANGED <<hub, key, chain, service>> /\ Smooth

(* The answer arrives: the files are saved before they are written.        *)
Answered ==
    /\ agent \in Hubs /\ call[agent] = "answered"
    /\ got' = Signed
    /\ backup' = [key |-> key, cert |-> cert, chain |-> chain]
    /\ agent' = "key"
    /\ UNCHANGED <<hub, files, service>> /\ Smooth

(* _hub_request gives up on a hub: the handler is gone, or its answer is   *)
(* late or lost, and the handler may go on.  The secondary hub gets the    *)
(* very same request; after that the renewal is off until the next pass.   *)
GivesUp ==
    /\ agent \in Hubs
    /\ IF call[agent] = "none" THEN Smooth ELSE Fault
    /\ IF agent = "primary"
       THEN agent' = "secondary" /\ call' = [call EXCEPT !["secondary"] = "asked"]
       ELSE agent' = "rest" /\ UNCHANGED call
    /\ UNCHANGED <<minted, newest, aged, files, service, memory>>

(* The three files in the order of the dictionary, the key first.  A write *)
(* that fails leaves a torn file and goes to the rollback.                 *)
WriteKey ==
    /\ agent = "key"
    /\ \/ key' = tries /\ agent' = "cert" /\ Smooth
       \/ key' = Torn /\ agent' = "unkey" /\ Fault
    /\ UNCHANGED <<hub, cert, chain, service, memory>>

WriteCert ==
    /\ agent = "cert"
    /\ \/ cert' = got /\ agent' = "chain" /\ Smooth
       \/ cert' = Torn /\ agent' = "unkey" /\ Fault
    /\ UNCHANGED <<hub, key, chain, service, memory>>

WriteChain ==
    /\ agent = "chain"
    /\ \/ chain' = TRUE /\ agent' = "check" /\ Smooth
       \/ chain' = FALSE /\ agent' = "unkey" /\ Fault
    /\ UNCHANGED <<hub, key, cert, service, memory>>

Check ==
    /\ agent = "check"
    /\ \/ Sound /\ agent' = "reload" /\ Smooth
       \/ ~Sound /\ agent' = "unkey" /\ Smooth
       \/ agent' = "unkey" /\ Fault
    /\ UNCHANGED <<hub, files, service, memory>>

(* A reload works only on a service that runs and on files that are sound. *)
Loads == IF up /\ Sound THEN loaded' = cert /\ missed' = FALSE ELSE UNCHANGED <<loaded, missed>>

(* A reload that is reported as failed, or raises, may have worked.        *)
Reload ==
    /\ agent = "reload"
    /\ \/ up /\ agent' = "look" /\ Loads /\ Smooth
       \/ ~up /\ agent' = "unkey" /\ UNCHANGED <<loaded, missed>> /\ Smooth
       \/ agent' = "unkey" /\ (Loads \/ UNCHANGED <<loaded, missed>>) /\ Fault
    /\ UNCHANGED <<hub, files, up, memory>>

(* Two seconds later: is the service still active?  The fault is that the  *)
(* reload killed it, or that the test fails while it runs.                 *)
Look ==
    /\ agent = "look"
    /\ \/ agent' = (IF up THEN "rest" ELSE "unkey") /\ UNCHANGED up /\ Smooth
       \/ agent' = "unkey" /\ up' \in {FALSE, up} /\ Fault
    /\ UNCHANGED <<hub, files, loaded, missed, memory>>

\* Mutant: the rollback forgets the key.
KeepKey ==
    /\ agent = "unkey"
    /\ agent' = "uncert"
    /\ UNCHANGED <<hub, files, service, memory>> /\ Smooth

\* Mutant: the rollback forgets the certificate.
KeepCert ==
    /\ agent = "uncert"
    /\ agent' = "unchain"
    /\ UNCHANGED <<hub, files, service, memory>> /\ Smooth

(* The rollback: restore() writes the files back, and the reload that      *)
(* follows is not looked at.  A write that fails in it raises; the handler *)
(* restores once more, and if that fails too the pass is over.             *)
Cut == /\ agent' = "rest" /\ scar' = TRUE
       /\ faults < MaxFaults /\ faults' = faults + 1 /\ UNCHANGED <<tries, deaths>>

RestoreKey ==
    /\ agent = "unkey"
    /\ \/ key' = backup.key /\ agent' = "uncert" /\ Smooth
       \/ key' = Torn /\ Cut
    /\ UNCHANGED <<hub, cert, chain, service, memory>>

RestoreCert ==
    /\ agent = "uncert"
    /\ \/ cert' = backup.cert /\ agent' = "unchain" /\ Smooth
       \/ cert' = Torn /\ Cut
    /\ UNCHANGED <<hub, key, chain, service, memory>>

RestoreChain ==
    /\ agent = "unchain"
    /\ \/ chain' = backup.chain /\ agent' = "reapply" /\ Smooth
       \/ chain' = FALSE /\ Cut
    /\ UNCHANGED <<hub, key, cert, service, memory>>

Reapply ==
    /\ agent = "reapply" /\ agent' = "rest"
    /\ \/ Loads /\ Smooth
       \/ UNCHANGED loaded /\ missed' = TRUE /\ Fault
    /\ UNCHANGED <<hub, files, up, memory>>

(* Between renewals: a new CRL.  Whether -XC passes or the old CRL is put  *)
(* back, a reload follows, and it loads the pair with it.                  *)
CrlInstall ==
    /\ agent = "rest" /\ up /\ Sound /\ loaded # cert
    /\ Loads
    /\ UNCHANGED <<hub, files, up, agent, memory>> /\ Smooth

(* Between renewals: new adapter code, for which the service is stopped    *)
(* and started, with or without the rollback; files that are not sound     *)
(* keep it from starting.                                                  *)
Start == /\ up' = Sound
         /\ IF Sound THEN loaded' = cert /\ missed' = FALSE ELSE UNCHANGED <<loaded, missed>>

AdapterInstall ==
    /\ agent = "rest"
    /\ Start
    /\ UNCHANGED <<hub, files, agent, memory>> /\ Smooth

(* What a death leaves of the file being written: its old or its new       *)
(* content, or a part.                                                     *)
TornKey == agent \in {"key", "unkey"} /\ key' = Torn /\ UNCHANGED <<cert, chain>>
TornCert == agent \in {"cert", "uncert"} /\ cert' = Torn /\ UNCHANGED <<key, chain>>
TornChain == agent \in {"chain", "unchain"} /\ chain' = FALSE /\ UNCHANGED <<key, cert>>
Whole == UNCHANGED files

(* The agent dies anywhere in its pass, alone or with the box, which       *)
(* starts the service again.                                               *)
Dies ==
    /\ deaths < MaxDeaths /\ deaths' = deaths + 1
    /\ agent' = "rest"
    /\ Whole \/ TornKey \/ TornCert \/ TornChain
    /\ scar' = (scar \/ agent \in {"unkey", "uncert", "unchain"} \/ TornCert \/ TornChain)
    /\ \/ UNCHANGED service
       \/ \E ok \in BOOLEAN :
            /\ ok = (chain' /\ cert' # Torn /\ key' = minted[cert'])
            /\ up' = ok
            /\ IF ok THEN loaded' = cert' /\ missed' = FALSE ELSE UNCHANGED <<loaded, missed>>
    /\ UNCHANGED <<hub, memory, tries, faults>>
-----------------------------------------------------------------------------
Pass == \/ CheckIn \/ Answered \/ GivesUp \/ WriteKey \/ WriteCert \/ WriteChain \/ Check
        \/ Reload \/ Look \/ RestoreKey \/ RestoreCert \/ RestoreChain \/ Reapply

Next == \/ \E h \in Hubs : Mint(h) \/ Record(h) \/ HandlerDies(h)
        \/ Age \/ Pass \/ CrlInstall \/ AdapterInstall \/ Dies

Spec == Init /\ [][Next]_vars

(* Fairness: the timer starts a pass every hour and a pass takes its       *)
(* steps, a handler that does not die answers, and a new CRL comes daily   *)
(* (the refresh timer).  Nothing is promised of the adapter.               *)
FairSpec ==
    /\ Spec
    /\ WF_vars(Pass) /\ WF_vars(CrlInstall)
    /\ \A h \in Hubs : WF_vars(Mint(h)) /\ WF_vars(Record(h))
-----------------------------------------------------------------------------
(* The tidy state the safe installation is there for: while no agent has   *)
(* died and no rollback failed, a box at rest has files that are sound.  A *)
(* running service serves the pair on the disk - but for one case: it has  *)
(* loaded a pair that was then taken back, and the reload after that, on   *)
(* whose result nobody looks, has failed, until one works again.           *)
ServesDisk ==
    agent = "rest" /\ deaths = 0 /\ ~scar => Sound /\ (up => loaded = cert \/ missed)

(* Deaths between the writes: a box at rest whose files are not sound has  *)
(* the old certificate, which is due, so the next check-in renews it; only *)
(* a torn certificate or chain and a rollback that was cut are worse.      *)
(* This is what the order of the files buys.                               *)
MismatchHeals ==
    agent = "rest" /\ ~scar /\ ~Sound => Due(cert)

(* A request that is repeated at the secondary hub while the primary's     *)
(* handler goes on is signed once: no two certificates of one key.         *)
SignedOnce ==
    \A s, t \in DOMAIN minted : minted[s] = minted[t] => s = t

(* A running service that serves a due certificate comes to serve one that *)
(* is not, through lost answers, failed installations and deaths, unless   *)
(* the service goes down or a death left a scar.                           *)
RenewalCompletes ==
    up /\ Due(loaded) /\ ~scar ~> ~Due(loaded) \/ ~up \/ scar
=============================================================================
