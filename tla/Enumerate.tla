------------------------------ MODULE Enumerate ------------------------------
(***************************************************************************)
(* Enumeration of the device feature list at probe, and its undoing        *)
(* (pcie.c).                                                               *)
(*                                                                         *)
(* The parser walks the list of BAR 0 and then, if it met an FME, the list *)
(* of each implemented port.  An FME or PORT header starts a new feature   *)
(* device; the private features and the user AFU that follow belong to the *)
(* device being built, which is registered (committed) when the next one   *)
(* starts or the walk ends.  So the FME is visible to user space before    *)
(* its ports are.                                                          *)
(*                                                                         *)
(* The hardware is read as the walk goes: each action chooses the header   *)
(* it finds.  Addresses and sizes are abstract: a feature fits in its      *)
(* region or it does not.                                                  *)
(***************************************************************************)
EXTENDS Integers, FiniteSets, Sequences, SequencesExt, FiniteSetsExt

CONSTANTS MaxSeen,    \* bound on the headers of a walk
          MaxPorts,   \* MAX_FPGA_PORT_NUM
          Features    \* the private features the driver knows

ASSUME EnumAssumption ==
  /\ MaxSeen \in Nat /\ MaxPorts \in Nat
  /\ "uafu" \notin Features

VARIABLES
  state,          \* of the PCI device
  part,           \* 0: the list of BAR 0; i: the list of the i-th port
  seen,           \* the headers of the walk so far
  cur,            \* binfo->feature_dev
  fme_dev,        \* drvdata->fme_dev
  port_dev_list,  \* drvdata->port_dev_list
  registered,     \* devices added to the bus, as pairs of type and id
  ids,            \* fpga_ids, as pairs of type and id
  uafu_size,      \* port_features[PORT_FEATURE_ID_UAFU].resource_size # 0
  pr              \* did the last FPGA_FME_PORT_PR find its port?

walkVars == <<part, seen, cur, uafu_size>>
devVars == <<fme_dev, port_dev_list, registered, ids>>
vars == <<state, walkVars, devVars, pr>>

NoDev == [type |-> "none"]
Key(d) == <<d.type, d.id>>

\* The headers the walk can meet; a port has a user AFU or not (mmio_size).
Header == {[kind |-> "fme"]} \cup [kind : {"port"}, mmio : {0, 1}]
            \cup [kind : {"private"}, id : Features \cup {"unsupported"}]
            \cup {[kind |-> "afu"], [kind |-> "unknown"]}

\* A feature device; "at" is the port list it was found in.
Device == [type : {"fme", "port"}, id : Int, mmio : {0, 1}, at : 0..MaxPorts,
           features : SUBSET (Features \cup {"uafu"})]

TypeOK ==
  /\ state \in {"unbound", "parsing", "failing", "destroying", "bound", "oops"}
  /\ part \in 0..MaxPorts
  /\ seen \in Seq(Header)
  /\ cur \in Device \cup {NoDev}
  /\ fme_dev \in Device \cup {NoDev}
  /\ port_dev_list \in Seq(Device)
  /\ registered \subseteq ids
  /\ \A k \in ids : k \in {"fme", "port"} \X Nat
  /\ uafu_size \in {0, 1}
  /\ pr \in {"none", "found", "missing"}

Init ==
  /\ state = "unbound"
  /\ part = 0 /\ seen = <<>> /\ cur = NoDev
  /\ fme_dev = NoDev /\ port_dev_list = <<>>
  /\ registered = {} /\ ids = {}
  /\ uafu_size = 0
  /\ pr = "none"

-----------------------------------------------------------------------------
(* Building feature devices.                                               *)

Probe ==
  /\ state = "unbound"
  /\ state' = "parsing"
  /\ part' = 0 /\ seen' = <<>> /\ cur' = NoDev
  /\ pr' = "none"
  /\ UNCHANGED <<uafu_size, devVars>>

Meet(h) ==
  /\ state = "parsing"
  /\ Len(seen) < MaxSeen
  /\ seen' = Append(seen, h)
  /\ UNCHANGED <<part, pr>>

\* build_info_commit_dev: the device being built is added to the bus.
build_info_commit_dev ==
  /\ registered' = registered \cup (IF cur = NoDev THEN {} ELSE {Key(cur)})
  /\ fme_dev' = IF cur.type = "fme" THEN cur ELSE fme_dev
  /\ port_dev_list' = IF cur.type = "port" THEN <<cur>> \o port_dev_list ELSE port_dev_list

FreeId(type) == Min({i \in 0..Cardinality(ids) : <<type, i>> \notin ids})

NewDev(type, id, mmio) ==
  [type |-> type, id |-> id, mmio |-> mmio, at |-> part, features |-> {}]

\* build_info_create_dev with the header feature, all of it succeeding ...
CreateDev(type, mmio) ==
  /\ build_info_commit_dev
  /\ cur' = NewDev(type, FreeId(type), mmio)
  /\ ids' = ids \cup {Key(cur')}

\* ... or not: the commit fails and cur stays ...
CommitFails == cur # NoDev /\ UNCHANGED <<cur, devVars>>

\* ... or there is no device, no id (a negative one), or a later allocation
\* fails or the header does not fit.
CreateFails(type, mmio) ==
  /\ build_info_commit_dev
  /\ \/ cur' = NoDev /\ UNCHANGED ids
     \/ cur' = NewDev(type, -1, mmio) /\ UNCHANGED ids
     \/ cur' = NewDev(type, FreeId(type), mmio) /\ ids' = ids \cup {Key(cur')}

\* An FME header; a second FME is an error, found after its device is created.
ParseFme ==
  /\ Meet([kind |-> "fme"])
  /\ CreateDev("fme", 0)
  /\ state' = IF fme_dev' = NoDev THEN "parsing" ELSE "failing"
  /\ UNCHANGED uafu_size

ParseFmeFails ==
  /\ Meet([kind |-> "fme"])
  /\ CommitFails \/ CreateFails("fme", 0)
  /\ state' = "failing"
  /\ UNCHANGED uafu_size

\* Mutant: a size of zero does not replace the size of an earlier port.
uafu_size_kept(mmio) == uafu_size' = IF mmio = 0 THEN uafu_size ELSE mmio

\* enable_port_uafu (the reset of the port is in PortReset).
enable_port_uafu(mmio) == uafu_size' = mmio

ParsePort(mmio) ==
  /\ Meet([kind |-> "port", mmio |-> mmio])
  /\ CreateDev("port", mmio)
  /\ enable_port_uafu(mmio)
  /\ UNCHANGED state

\* The port is reset before the result of creating it is looked at: a port
\* with a user AFU that could not be created is an access through a null
\* pointer.  After a failed commit the older device is reset instead.
ParsePortFails(mmio) ==
  /\ Meet([kind |-> "port", mmio |-> mmio])
  /\ \/ CommitFails /\ state' = "failing"
     \/ CreateFails("port", mmio) /\ state' = IF mmio = 1 THEN "oops" ELSE "failing"
  /\ enable_port_uafu(mmio)

AddFeature(f) == cur' = [cur EXCEPT !.features = @ \cup {f}]

\* A private feature of the device being built; other ids are skipped.  (Ids
\* of port features are in the range [0x10, 0x13] that the source names.)
ParsePrivate(id) ==
  /\ Meet([kind |-> "private", id |-> id])
  /\ cur # NoDev
  /\ IF id \in Features THEN AddFeature(id) ELSE UNCHANGED cur
  /\ UNCHANGED <<state, uafu_size, devVars>>

\* It belongs to no device, does not fit, or its interrupts do not exist.
ParsePrivateFails(id) ==
  /\ Meet([kind |-> "private", id |-> id])
  /\ cur = NoDev \/ id \in Features
  /\ state' = "failing"
  /\ UNCHANGED <<cur, uafu_size, devVars>>

\* An AFU of an unknown type: the user AFU, if a port is being built.
ParseAfu ==
  /\ Meet([kind |-> "afu"])
  /\ IF cur.type # "port"
     THEN UNCHANGED <<state, cur, uafu_size>>
     ELSE \/ /\ uafu_size = 1
             /\ uafu_size' = 0
             /\ AddFeature("uafu")
             /\ UNCHANGED state
          \/ /\ uafu_size' = 0
             /\ state' = "failing"
             /\ UNCHANGED cur
  /\ UNCHANGED devVars

ParseUnknown ==
  /\ Meet([kind |-> "unknown"])
  /\ UNCHANGED <<state, cur, uafu_size, devVars>>

\* The end of a list: on to the list of the next port, which is only looked
\* for if an FME was met.
NextList ==
  /\ state = "parsing"
  /\ \E i \in DOMAIN seen : seen[i].kind = "fme"
  /\ part < MaxPorts
  /\ part' = part + 1
  /\ UNCHANGED <<state, seen, cur, uafu_size, devVars, pr>>

\* The walk cannot go on: a header or a BAR cannot be read.
WalkFails ==
  /\ state = "parsing"
  /\ state' = "failing"
  /\ UNCHANGED <<walkVars, devVars, pr>>

\* No other port is implemented: the last device is committed.
WalkEnds ==
  /\ state = "parsing"
  /\ \/ /\ build_info_commit_dev
        /\ cur' = NoDev
        /\ state' = "bound"
     \/ /\ cur # NoDev
        /\ state' = "failing"
        /\ UNCHANGED <<cur, fme_dev, port_dev_list, registered>>
  /\ UNCHANGED <<part, seen, uafu_size, ids, pr>>

-----------------------------------------------------------------------------
(* Undoing it.                                                             *)

\* Mutant: the id of the device being built is not given back.
build_info_free_id_kept ==
  /\ state = "failing"
  /\ registered' = {}
  /\ cur' = NoDev
  /\ state' = "destroying"
  /\ UNCHANGED <<part, seen, uafu_size, fme_dev, port_dev_list, ids, pr>>

\* Mutant: the devices already committed stay on the bus.
build_info_free_registered ==
  /\ state = "failing"
  /\ ids' = ids \ (IF cur = NoDev THEN {} ELSE {Key(cur)})
  /\ cur' = NoDev
  /\ state' = "destroying"
  /\ UNCHANGED <<part, seen, uafu_size, fme_dev, port_dev_list, registered, pr>>

\* build_info_free after an error: every device is unregistered, and the one
\* being built gives its id back (a device without one has no id in use).
build_info_free ==
  /\ state = "failing"
  /\ registered' = {}
  /\ ids' = ids \ (IF cur = NoDev THEN {} ELSE {Key(cur)})
  /\ cur' = NoDev
  /\ state' = "destroying"
  /\ UNCHANGED <<part, seen, uafu_size, fme_dev, port_dev_list, pr>>

\* cci_pci_remove: remove_all_devs.
PciRemove ==
  /\ state = "bound"
  /\ registered' = {}
  /\ state' = "destroying"
  /\ UNCHANGED <<walkVars, fme_dev, port_dev_list, ids, pr>>

Listed == (IF fme_dev = NoDev THEN {} ELSE {fme_dev}) \cup Range(port_dev_list)

destroy_drvdata ==
  /\ state = "destroying"
  /\ ids' = ids \ {Key(d) : d \in Listed}
  /\ fme_dev' = NoDev
  /\ port_dev_list' = <<>>
  /\ state' = "unbound"
  /\ UNCHANGED <<walkVars, registered, pr>>

-----------------------------------------------------------------------------
\* FPGA_FME_PORT_PR on the i-th port, which the hardware has, by a user of an
\* FME that is registered.
FmePortPr(i) ==
  /\ fme_dev # NoDev /\ Key(fme_dev) \in registered
  /\ \E d \in Listed \cup {cur} : d.type = "port" /\ d.at = i
  /\ pr = "none"
  /\ pr' = IF \E d \in Range(port_dev_list) : d.at = i THEN "found" ELSE "missing"
  /\ UNCHANGED <<state, walkVars, devVars>>

Next ==
  \/ Probe
  \/ ParseFme \/ ParseFmeFails
  \/ \E mmio \in {0, 1} : ParsePort(mmio) \/ ParsePortFails(mmio)
  \/ \E id \in Features \cup {"unsupported"} : ParsePrivate(id) \/ ParsePrivateFails(id)
  \/ ParseAfu \/ ParseUnknown
  \/ NextList \/ WalkFails \/ WalkEnds
  \/ build_info_free \/ PciRemove \/ destroy_drvdata
  \/ \E i \in 1..MaxPorts : FmePortPr(i)

Spec == Init /\ [][Next]_vars

-----------------------------------------------------------------------------
(* Properties.                                                             *)

\* The ids in use are those of the device being built and of the devices
\* drvdata knows, no two of which share one; on every error path each is given
\* back once, so an unbound device leaves none behind.  A device that drvdata
\* forgets was unregistered before, as the comments in destroy_drvdata and
\* cci_pci_remove_port_devs ask, on error paths too.
IdsBalanced ==
  LET held == Listed \cup (IF cur = NoDev \/ cur.id < 0 THEN {} ELSE {cur})
  IN  /\ ids = {Key(d) : d \in held}
      /\ Cardinality(ids) = Len(port_dev_list) + Cardinality(held \ Range(port_dev_list))
      /\ state \in {"destroying", "unbound"} => registered = {}

\* The positions in the walk of the headers that start a device.
Starts == {i \in DOMAIN seen : seen[i].kind \in {"fme", "port"}}

\* The features of the device that starts at i: the known private features up
\* to the next start, and for a port the user AFU among them.
FeaturesFrom(i) ==
  LET after == {j \in DOMAIN seen : j > i /\ \A k \in Starts : k > i => j < k}
  IN  {seen[j].id : j \in {j \in after : seen[j].kind = "private" /\ seen[j].id \in Features}}
        \cup {"uafu" : j \in {j \in after : seen[i].kind = "port" /\ seen[j].kind = "afu"}}

\* The devices drvdata knows are those of the headers at S, at most one of them
\* an FME, each with the features found between its header and the next: the
\* ports in the order of their headers, the last one first.
DevicesAt(S) ==
  LET fmes == {i \in S : seen[i].kind = "fme"}
      ports == {i \in S : seen[i].kind = "port"}
  IN  /\ \E at \in [DOMAIN port_dev_list -> ports] :
           /\ Range(at) = ports
           /\ \A m, n \in DOMAIN at : m < n => at[m] > at[n]
           /\ \A n \in DOMAIN at : port_dev_list[n].features = FeaturesFrom(at[n])
      /\ fme_dev = NoDev <=> fmes = {}
      /\ \A i \in fmes : fmes = {i} /\ fme_dev.features = FeaturesFrom(i)

\* A successful probe registers one device per FME or PORT header, at most one
\* FME, and gives each the features found between its header and the next.  A
\* user AFU is only given to a port that has one: the size left in the static
\* table by another port, or by an earlier probe, is never used.
DevicesMatchList ==
  state = "bound" =>
    /\ registered = {Key(d) : d \in Listed}
    /\ \A d \in Listed : "uafu" \in d.features => d.mmio = 1
    /\ DevicesAt(Starts)

\* What fme_pr asserts with WARN_ON(!port): the port it is asked to load, which
\* the hardware has, is in the driver's list.
PrFindsPort == pr # "missing"
=============================================================================
