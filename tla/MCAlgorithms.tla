---------------------------- MODULE MCAlgorithms ----------------------------
(* Small instances for TLC of the parts that need no other part: the search *)
(* for cycles, selectors and requests, fingerprints, state stores, and the  *)
(* report of a refresh.  A behaviour is one of one part; the others rest.   *)
EXTENDS Ordering, Selection, Fingerprints, StateStore, Report

----------------------------------------------------------------------------
(* Four items: every graph in which only the last may depend on itself. *)

MCItems == 1..4
MCPlans == {p \in [MCItems -> SUBSET MCItems] : \A i \in 1..3 : i \notin p[i]}

----------------------------------------------------------------------------
(* Three resources, with tags in a text, in a collection, and without. *)

CONSTANTS r1, r2, r3

MCResources == {r1, r2, r3}
MCNamed == {{}, {r1}, {r3, "gone"}}
MCTagsOf == r1 :> [holds |-> "text", value |-> "x"]
         @@ r2 :> [holds |-> "collection", value |-> {"x", "y"}]
         @@ r3 :> [holds |-> "nothing"]
MCLeaves ==
    {[kind |-> "id", ids |-> {r1}],
     [kind |-> "tag", tags |-> {"x", "y"}, match_all |-> TRUE],
     [kind |-> "tag", tags |-> {"x", "y"}, match_all |-> FALSE],
     [kind |-> "foreign", accepts |-> {r3}]}

----------------------------------------------------------------------------
(* Types with subclasses of the built-in ones, and values whose texts look  *)
(* like tags and lengths.                                                   *)

Class(name, bases, form) == [name |-> name, bases |-> bases, form |-> form]
Builtin(form) == Class(<<>>, {}, form)
MCClasses ==
    [NoneType |-> Builtin("None"), bool |-> Builtin("bool"), int |-> Builtin("int"),
     float |-> Builtin("float"), str |-> Builtin("str"), bytes |-> Builtin("bytes"),
     bytearray |-> Builtin("bytes"), list |-> Builtin("sequence"),
     tuple |-> Builtin("sequence"), dict |-> Builtin("mapping"),
     set |-> Builtin("set"), timedelta |-> Builtin("timedelta"),
     datetime |-> Builtin("datetime"), date |-> Builtin("date"),
     UUID |-> Builtin("uuid"),
     Stamp |-> Class(<<116>>, {"datetime", "date"}, "datetime"),
     Colour |-> Class(<<99>>, {"Enum"}, "enum"),
     StrColour |-> Class(<<98>>, {"Enum", "str"}, "enum"),
     Point |-> Class(<<112>>, {"dataclass"}, "dataclass")]
Str(text) == [type |-> "str", text |-> text]
MCAtoms ==
    {[type |-> "bool", number |-> 1], [type |-> "int", number |-> 1],
     [type |-> "int", number |-> -1], [type |-> "int", number |-> 255],
     Str(<<>>), Str(<<97>>), Str(<<83>>), Str(<<97, 83>>), 
     [type |-> "bytearray", text |-> <<97>>], [type |-> "bytes", text |-> <<97>>],
     [type |-> "Stamp", text |-> <<97>>], [type |-> "date", text |-> <<97>>],
     [type |-> "list", items |-> <<>>]}
----------------------------------------------------------------------------
VARIABLE part       \* the one that runs

OrderingRests ==
    /\ before = [i \in Items |-> {}] /\ phase = "count"
    /\ remaining = [i \in Items |-> 0] /\ ready = <<>> /\ blocked = {}
    /\ indexOf = <<>> /\ low = <<>> /\ stack = <<>> /\ work = <<>> /\ components = {}
    /\ start = 0 /\ parents = <<>> /\ queue = <<>> /\ cycle = <<>>
SelectionRests == selector = <<>> /\ meant = <<>> /\ operators = 0
FingerprintsRest == built = {} /\ nested = 0
StoreRests ==           \* every transaction is over
    /\ durable = TRUE /\ stored = Empty /\ draft = Empty /\ writer = NoWriter
    /\ puts = [t \in Transactions |-> Empty]
    /\ deletes = [t \in Transactions |-> {}]
    /\ closed = [t \in Transactions |-> TRUE]
    /\ call = [t \in Transactions |-> "none"]
    /\ worker = [t \in Transactions |-> [at |-> "none", puts |-> Empty, deletes |-> {}]]
    /\ asked = [t \in Transactions |-> [id \in Ids |-> Unasked]]
ReportRests == ReportInit /\ mode = "FULL" /\ policy = "FAIL_FAST" /\ known = {}

MCInit ==
    /\ part \in {"ordering", "selection", "fingerprints", "store", "report"}
    /\ IF part = "ordering" THEN Init ELSE OrderingRests
    /\ IF part = "selection" THEN SelectionInit ELSE SelectionRests
    /\ IF part = "fingerprints" THEN FingerprintsInit ELSE FingerprintsRest
    /\ IF part = "store" THEN StoreInit ELSE StoreRests
    /\ IF part = "report" THEN ReportInit ELSE ReportRests

MCNext ==
    /\ UNCHANGED part
    /\ \/ /\ part = "ordering" /\ Next
          /\ UNCHANGED <<selectionVars, fingerprintsVars, storeStateVars, reportVars>>
       \/ /\ part = "selection" /\ SelectionNext
          /\ UNCHANGED <<vars, fingerprintsVars, storeStateVars, reportVars>>
       \/ /\ part = "fingerprints" /\ FingerprintsNext
          /\ UNCHANGED <<vars, selectionVars, storeStateVars, reportVars>>
       \/ /\ part = "store" /\ StoreNext
          /\ UNCHANGED <<vars, selectionVars, fingerprintsVars, reportVars>>
       \/ /\ part = "report" /\ ReportNext
          /\ UNCHANGED <<vars, selectionVars, fingerprintsVars, storeStateVars>>

MCSpec ==
    MCInit /\ [][MCNext]_<<part, vars, selectionVars, fingerprintsVars,
                           storeStateVars, reportVars>>
=============================================================================
