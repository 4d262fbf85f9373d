------------------------- MODULE ScanConnectProofs -------------------------
(***************************************************************************)
(* Proofs about ScanConnect for any set of peers, any cooldown and any     *)
(* clock range longer than the cooldown.                                   *)
(***************************************************************************)
EXTENDS ScanConnect, TLAPS

(* The clock agrees with real time as long as the failure is recent: this is *)
(* what makes the cooldown test correct across a wrap of the clock.          *)
ClockTracksAge ==
    last_failed_addr # None /\ age[last_failed_addr] < FAIL_COOLDOWN
    => Since(last_failed_ms) = age[last_failed_addr]

(* Nothing is scanned, connected or scheduled before the bring-up succeeds. *)
DownIsQuiet == bt # "up" => default_conn = None /\ scanning = FALSE /\ scan_retry = FALSE

Inv == TypeOK /\ NeverDeaf /\ ScanOnlyIdle /\ DownIsQuiet /\ ClockTracksAge

LEMMA InitInv == Init => Inv
<1> SUFFICES ASSUME Init PROVE Inv
  OBVIOUS
<1>1. TypeOK
  <2>1. bonds \subseteq Peers /\ age \in [Peers -> 0 .. AgeMax]
    BY ClockAssumption DEF Init
  <2>2. 0 \in 0 .. Wrap - 1
    BY ClockAssumption
  <2> QED
    BY <2>1, <2>2 DEF Init, TypeOK, Links
<1>2. NeverDeaf /\ ScanOnlyIdle /\ DownIsQuiet /\ ClockTracksAge
  BY DEF Init, NeverDeaf, ScanOnlyIdle, DownIsQuiet, ClockTracksAge
<1> QED
  BY <1>1, <1>2 DEF Inv

(* Called with neither a scan nor a retry, start_scan leaves exactly one.    *)
LEMMA ScanOrRetry ==
    ASSUME scanning = FALSE, scan_retry = FALSE, start_scan(scanning, scan_retry)
    PROVE  /\ scanning' \in BOOLEAN /\ scan_retry' \in BOOLEAN
           /\ scanning' # scan_retry'
BY DEF start_scan

(* One step per action; time only matters to ClockTracksAge. *)
LEMMA StepInv == Inv /\ [Next]_vars => Inv'
<1> SUFFICES ASSUME Inv, [Next]_vars PROVE Inv'
  OBVIOUS
<1> USE PeersAssumption, ClockAssumption
        DEF Inv, TypeOK, NeverDeaf, ScanOnlyIdle, DownIsQuiet, Links
<1>1. CASE StartWork
  <2>1. CASE bt' = "dead" /\ UNCHANGED radio
    BY <1>1, <2>1 DEF StartWork, radio, conn, cooldown, clock, ClockTracksAge, Since
  <2>2. CASE bt' = "up" /\ start_scan(scanning, scan_retry)
    <3>1. ClockTracksAge'
      BY <1>1, <2>2 DEF StartWork, cooldown, clock, ClockTracksAge, Since
    <3>2. scanning = FALSE /\ scan_retry = FALSE /\ default_conn = None
      BY <1>1 DEF StartWork
    <3>3. scanning' # scan_retry' /\ scanning' \in BOOLEAN /\ scan_retry' \in BOOLEAN
      BY <2>2, <3>2, ScanOrRetry
    <3> QED
      BY <1>1, <2>2, <3>1, <3>2, <3>3 DEF StartWork, conn, cooldown, clock
  <2> QED
    BY <1>1, <2>1, <2>2 DEF StartWork
<1>2. CASE ScanRetry
  BY <1>2 DEF ScanRetry, start_scan, conn, cooldown, clock, ClockTracksAge, Since
<1>3. ASSUME NEW p \in Peers, DeviceFound(p) PROVE Inv'
  <2>1. ClockTracksAge'
    BY <1>3 DEF DeviceFound, cooldown, clock, ClockTracksAge, Since
  <2>2. scan_retry = FALSE
    BY <1>3 DEF DeviceFound
  <2>3. CASE start_scan(FALSE, scan_retry) /\ UNCHANGED conn
    <3>1. scanning' \in BOOLEAN /\ scan_retry' \in BOOLEAN /\ scanning' # scan_retry'
      BY <2>2, <2>3 DEF start_scan
    <3> QED
      BY <1>3, <2>1, <2>3, <3>1 DEF DeviceFound, conn, cooldown, clock
  <2>4. CASE scanning' = FALSE /\ default_conn' = p /\ link' = "creating" /\ UNCHANGED scan_retry
    BY <1>3, <2>1, <2>2, <2>4 DEF DeviceFound, cooldown, clock
  <2> QED
    BY <1>3, <2>3, <2>4 DEF DeviceFound
<1>4. CASE ConnectFailed
  <2>1. ClockTracksAge'
    BY <1>4 DEF ConnectFailed, cooldown, clock, ClockTracksAge, Since
  <2>2. scanning = FALSE /\ scan_retry = FALSE
    BY <1>4 DEF ConnectFailed
  <2>3. scanning' # scan_retry' /\ scanning' \in BOOLEAN /\ scan_retry' \in BOOLEAN
    BY <1>4, <2>2, ScanOrRetry DEF ConnectFailed
  <2> QED
    BY <1>4, <2>1, <2>2, <2>3 DEF ConnectFailed, cooldown, clock
<1>5. CASE Connected
  BY <1>5 DEF Connected, radio, cooldown, clock, ClockTracksAge, Since
<1>6. CASE Secured
  BY <1>6 DEF Secured, radio, cooldown, clock, ClockTracksAge, Since
<1>7. CASE SecurityFailed
  BY <1>7 DEF SecurityFailed, radio, ClockTracksAge, Since
<1>8. CASE Disconnected
  <2>1. ClockTracksAge'
    BY <1>8 DEF Disconnected, cooldown, clock, ClockTracksAge, Since
  <2>2. scanning = FALSE /\ scan_retry = FALSE
    BY <1>8 DEF Disconnected
  <2>3. scanning' # scan_retry' /\ scanning' \in BOOLEAN /\ scan_retry' \in BOOLEAN
    BY <1>8, <2>2, ScanOrRetry DEF Disconnected
  <2> QED
    BY <1>8, <2>1, <2>2, <2>3 DEF Disconnected, cooldown, clock
<1>9. CASE Tick
  <2>1. TypeOK' /\ NeverDeaf' /\ ScanOnlyIdle' /\ DownIsQuiet'
    BY <1>9 DEF Tick, radio, conn, cooldown
  <2>2. ClockTracksAge'
    BY <1>9 DEF Tick, cooldown, ClockTracksAge, Since
  <2> QED
    BY <2>1, <2>2
<1>10. CASE UNCHANGED vars
  BY <1>10 DEF vars, radio, conn, cooldown, clock, ClockTracksAge, Since
<1> QED
  BY <1>1, <1>2, <1>3, <1>4, <1>5, <1>6, <1>7, <1>8, <1>9, <1>10 DEF Next

LEMMA Invariant == Spec => []Inv
BY InitInv, StepInv, PTL DEF Spec

(* The connection state stays well formed; in particular the connection      *)
(* object and the link exist together.                                       *)
THEOREM TypeCorrect == Spec => []TypeOK
BY Invariant, PTL DEF Inv

(* A failed start of the scanner never leaves the dongle deaf. *)
THEOREM NotDeaf == Spec => []NeverDeaf
BY Invariant, PTL DEF Inv

(* No scan runs beside a connection, and no retry is pending beside either. *)
THEOREM ScanIsIdle == Spec => []ScanOnlyIdle
BY Invariant, PTL DEF Inv

(* The cooldown of the last peer that failed holds in full, across a wrap of *)
(* the clock at any point.                                                   *)
THEOREM CooldownHolds == Spec => LastRefusedSkipped
<1> DEFINE Skip ==
      \A p \in Peers :
          p = last_failed_addr /\ age[p] < FAIL_COOLDOWN /\ p \notin bonds
          => ~(default_conn = None /\ default_conn' = p)
<1>1. Inv /\ [Next]_vars => [Skip]_vars
  <2> SUFFICES ASSUME Inv, [Next]_vars PROVE Skip
    OBVIOUS
  <2> USE PeersAssumption DEF Inv, TypeOK
  <2>1. ASSUME NEW p \in Peers, DeviceFound(p) PROVE Skip
    BY <2>1, ClockAssumption
       DEF DeviceFound, Target, InCooldown, ClockTracksAge, conn
  <2>2. CASE ~(\E p \in Peers : DeviceFound(p))
    BY <2>2 DEF Next, vars, StartWork, ScanRetry, ConnectFailed, Connected,
                Secured, SecurityFailed, Disconnected, Tick, conn
  <2> QED
    BY <2>1, <2>2
<1> QED
  BY <1>1, Invariant, PTL DEF Spec, LastRefusedSkipped

-----------------------------------------------------------------------------
(* The connection side implements Reconnect for any number of peers: each    *)
(* action is the abstract action named beside it, or changes nothing there.  *)
THEOREM Refinement == Spec => ImplementsReconnect
<1>1. Init => Abstract!Init
  BY DEF Init, Abstract!Init, Phase
<1>2. Inv /\ [Next]_vars => [Abstract!Next]_<<Phase, default_conn>>
  <2> SUFFICES ASSUME Inv, [Next]_vars
               PROVE  Abstract!Next \/ (Phase' = Phase /\ default_conn' = default_conn)
    OBVIOUS
  <2> USE PeersAssumption
          DEF Inv, TypeOK, NeverDeaf, DownIsQuiet, Phase, Links, Abstract!Next
  <2>1. CASE StartWork                              \* PowerUp
    BY <2>1 DEF StartWork, start_scan, conn, Abstract!PowerUp
  <2>2. CASE ScanRetry
    BY <2>2 DEF ScanRetry, start_scan, conn
  <2>3. ASSUME NEW p \in Peers, DeviceFound(p)      \* Attempt(p)
        PROVE  Abstract!Next \/ (Phase' = Phase /\ default_conn' = default_conn)
    BY <2>3 DEF DeviceFound, start_scan, conn, Abstract!Attempt
  <2>4. CASE ConnectFailed                          \* SearchAgain
    BY <2>4 DEF ConnectFailed, start_scan, Abstract!SearchAgain
  <2>5. CASE Connected \/ SecurityFailed
    BY <2>5 DEF Connected, SecurityFailed, radio
  <2>6. CASE Secured                                \* Succeed
    BY <2>6 DEF Secured, radio, Abstract!Succeed
  <2>7. CASE Disconnected                           \* SearchAgain
    BY <2>7 DEF Disconnected, start_scan, Abstract!SearchAgain
  <2>8. CASE Tick \/ UNCHANGED vars
    BY <2>8 DEF Tick, vars, radio, conn
  <2> QED
    BY <2>1, <2>2, <2>3, <2>4, <2>5, <2>6, <2>7, <2>8 DEF Next
<1> QED
  BY <1>1, <1>2, Invariant, PTL DEF Spec, ImplementsReconnect, Abstract!Spec
=============================================================================
