----------------------------- MODULE MCPluginStore -----------------------------
(* PluginStore with interchangeable plugins, calls and administrators, each with a
   directory of its own, and at most MaxBegun operations. *)
EXTENDS PluginStore, TLC

CONSTANT MaxBegun

Symmetry == Permutations(Plugins) \union Permutations(Calls) \union Permutations(Admins)

CONSTANT Old \* what was pushed and unpacked before

\* All plugins are registered, each with a directory of its own, and all are unpacked
\* or none; or none is, and all have one directory, or one row has no checksum or is
\* missing.
Starts ==
    /\ \A p \in Plugins : archive[p] = Old
    /\ \/ /\ \A p \in Plugins : row[p] = Old /\ home[p] = p
          /\ OnDisk = {} \/ \A d \in Dirs : disk[d] = Old
       \/ /\ \A p, q \in Plugins : row[p] = Old /\ home[p] = home[q]
          /\ OnDisk = {}
       \/ /\ \A p \in Plugins : home[p] = p
          /\ \E p \in Plugins, s \in {Unchecked, None} :
                row[p] = s /\ \A q \in Plugins \ {p} : row[q] = Old
          /\ OnDisk = {}

MCInit == Init /\ Starts

MCSpec == MCInit /\ [][Next]_vars

\* The scan that is under way and the crash count as one each.
AtMost ==
    LET there(x) == IF x THEN 1 ELSE 0
    IN  Cardinality({g \in Calls : pc[g] # "new"}) + Cardinality({a \in Admins : apc[a] # "idle"})
          + restarts + there(pc[Warm] # "idle") <= MaxBegun
===============================================================================
