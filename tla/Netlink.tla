------------------------------ MODULE Netlink ------------------------------
(***************************************************************************)
(* The netlink input (src/in_netlink.c) on top of Elements: a reading takes *)
(* what the kernel has, link by link and below each link its tree of        *)
(* qdiscs, classes and filters, to elements.  Between two readings links    *)
(* and traffic control come, go, change their order, their master and       *)
(* whether they are up.                                                     *)
(*                                                                          *)
(* The selection plays no part in a reading: NetlinkNext leaves the keys    *)
(* out.  The option notc, and class caches that cannot be had, are kernels  *)
(* without traffic control.                                                 *)
(***************************************************************************)
EXTENDS Elements

CONSTANTS
    Grp,         \* DEFAULT_GROUP
    Links, Tc,   \* names of links, and of qdiscs, classes and filters
    TcParent,    \* what each of Tc hangs below: a link, or another one of Tc
    Kernels,     \* what the kernel may have, see KernelAssumption
    ShowAll,     \* cfg_show_all
    CalmCap      \* bound of the auxiliary variable calm

ASSUME KernelAssumption ==
    /\ Names = Links \cup Tc /\ Links \cap Tc = {}
    /\ Grp \in Groups /\ TcParent \in [Tc -> Names]
    /\ \A k \in Kernels : /\ k.links \in Seq(Links)         \* in the order of link_cache
                          /\ k.up \subseteq Links           \* IFF_UP
                          /\ k.master \in [Links -> Links \cup {NoName}]
                          /\ k.tc \in Seq(Tc)               \* in the order of their caches
                          /\ IsInjective(k.links) /\ IsInjective(k.tc)

\* Traffic control hangs below a link in the end.
ASSUME TcAssumption ==
    /\ IsFiniteSet(Tc)
    /\ \E depth \in [Names -> 0 .. Cardinality(Tc)] : \A t \in Tc : depth[TcParent[t]] < depth[t]

\* External: within a network namespace the kernel puts a link on top of one that
\* exists, and only the two ends of a pair are the masters of each other.  Loops of
\* indices from other namespaces are left out (see README, Findings).
ASSUME MasterAssumption ==
    /\ IsFiniteSet(Links)
    /\ \A k \in Kernels : \E depth \in [Links -> 0 .. Cardinality(Links) - 1] : \A l \in Links :
          LET m == k.master[l]
          IN  \/ m = NoName
              \/ depth[m] < depth[l]
              \/ (m # l /\ k.master[m] = l /\ depth[l] > 0)

VARIABLES
    kernel,      \* link_cache, qdisc_cache and the caches of classes and filters
    todo,        \* what the walks over the caches have still to visit, and below what
    reading,     \* BMON_MODULE_ENABLED of the module
    calm         \* auxiliary: readings since the kernel last changed

caches == <<kernel, todo, reading, calm>>

NetlinkInit ==
    /\ NoElementYet /\ group_list = <<Grp>>    \* netlink_do_init()
    /\ kernel \in Kernels
    /\ todo = <<>> /\ reading = TRUE /\ calm = 0

Below(names, p) == [i \in DOMAIN names |-> [name |-> names[i], parent |-> p]]

\* netlink_read(): the caches are brought up to date.
Resync ==
    /\ reading /\ StartRead
    /\ kernel' \in Kernels
    /\ todo' = Below(kernel'.links, NoElement)
    /\ calm' = IF kernel' # kernel THEN 0 ELSE IF calm < CalmCap THEN calm + 1 ELSE calm
    /\ UNCHANGED reading

\* They cannot be: the module disables itself, and no later reading runs it.
ResyncFails ==
    /\ StartRead
    /\ reading' = FALSE
    /\ UNCHANGED <<kernel, todo, calm>>

\* Mutant: as in proc_read(), the walk ends at the first denied element.
SkipAll == <<>>

Skip == Tail(todo)

TcBelow(n) ==
    LET below[k \in 0 .. Len(kernel.tc)] ==    \* among the first k of the caches
            IF k = 0 THEN <<>>
            ELSE IF TcParent[kernel.tc[k]] = n THEN Append(below[k - 1], kernel.tc[k])
            ELSE below[k - 1]
    IN  below[Len(kernel.tc)]

\* find_cls(), find_classes(), find_qdiscs(), handle_tc(): what hangs below the
\* element that n has under p now.
Descend(n, p) ==
    Below(TcBelow(n), CHOOSE e \in Elements : e_group'[e] = Grp /\ e_parent'[e] = p /\ e_name'[e] = n)

\* element_lookup(ELEMENT_CREAT), element_notify_update(), element_lifesign(); a
\* link gets the latter two only after what hangs below it, which nobody sees.
Report(n, p) ==
    \/ /\ ObserveKnown(Grp, n, p) \/ ObserveNew(Grp, n, p)
       /\ todo' = Descend(n, p) \o Tail(todo)
    \/ /\ ObserveDenied(Grp, n, p)
       /\ todo' = Skip

IsSeen(l) == ShowAll \/ l \in kernel.up

\* Mutant: a link stays where it was first seen.
ParentsOnce(l) ==
    LET old == {e \in Elements : e_name[e] = l}
        m == {e \in Elements : e_name[e] = kernel.master[l] /\ e_parent[e] = NoElement}
    IN  IF old # {} THEN {e_parent[e] : e \in old}
        ELSE IF kernel.master[l] = NoName \/ m = {} THEN {NoElement} ELSE m

\* What do_link() may take for the parent of a link: the element its master has at
\* top level, NULL if it has none.  For a master that link_cache lacks,
\* rtnl_link_i2name() leaves the name uninitialized.  The index must match too:
\* what is found is what is left of that master, or nothing.
Parents(l) ==
    LET m == Lookup(Grp, kernel.master[l], NoElement)
        cached == \E i \in DOMAIN kernel.links : kernel.links[i] = kernel.master[l]
    IN  IF kernel.master[l] = NoName \/ m = {} THEN {NoElement}
        ELSE IF cached THEN m ELSE m \cup {NoElement}

\* do_link()
DoLink ==
    /\ pc = "read" /\ todo # <<>> /\ Head(todo).name \in Links
    /\ LET l == Head(todo).name
       IN  IF IsSeen(l) THEN \E p \in Parents(l) : Report(l, p)
           ELSE todo' = Tail(todo) /\ UNCHANGED vars
    /\ UNCHANGED <<kernel, reading, calm>>

\* handle_qdisc(), handle_class(), handle_cls()
HandleTc ==
    /\ pc = "read" /\ todo # <<>> /\ Head(todo).name \in Tc
    /\ Report(Head(todo).name, Head(todo).parent)
    /\ UNCHANGED <<kernel, reading, calm>>

EndReading == todo = <<>> /\ EndRead /\ UNCHANGED caches

Reap == (CheckIfDead \/ NextGroup \/ ElementFree) /\ UNCHANGED caches

DrawScreen == Draw /\ UNCHANGED caches

NetlinkNext == Resync \/ ResyncFails \/ DoLink \/ HandleTc \/ EndReading \/ Reap \/ DrawScreen

NetlinkSpec == NetlinkInit /\ [][NetlinkNext]_<<vars, caches>>

-----------------------------------------------------------------------------
\* The elements updated in the last reading that stand for n, and all of them.
Updated(n) == {e \in Elements : e_name[e] = n /\ e_updated[e]}
Standing(n) == {e \in Elements : e_name[e] = n}

\* What should be reported: links that are seen, and what hangs below a reported one.
IsReported(n) ==
    LET has == {kernel.links[i] : i \in DOMAIN kernel.links} \cup {kernel.tc[i] : i \in DOMAIN kernel.tc}
        chain[k \in 0 .. Cardinality(Tc)] ==   \* n and what it hangs below, k steps up
            IF k = 0 THEN n ELSE IF chain[k - 1] \in Tc THEN TcParent[chain[k - 1]] ELSE chain[k - 1]
    IN  \A k \in DOMAIN chain :
            chain[k] \in has \cap Admitted /\ (chain[k] \in Links => IsSeen(chain[k]))

\* A reading takes the whole of the kernel's tree to elements and nothing else:
\* each link that is seen and each object below it that the policy lets in has
\* been updated as exactly one element, whatever twins an older master, order or
\* policy left behind, and stands below the one updated for what it hangs below.
ReadsWhole ==
    pc = "read" /\ todo = <<>> /\ reading =>
        \A n \in Names :
            /\ Cardinality(Updated(n)) = IF IsReported(n) THEN 1 ELSE 0
            /\ n \in Tc => \A e \in Updated(n) : e_parent[e] \in Updated(TcParent[n])

\* Readings until an unchanging kernel is on the screen as it is.  A link stands
\* below its master only if that is at top level; of a chain of masters every
\* second link ends up there, and from one pair of links to the next it takes a
\* lifetime until the twins are gone that hid where they belong.
SettleTime == Lifecycles * ((Cardinality(Links) + 1) \div 2)

\* Once SettleTime readings in a row have found the kernel as the reading before
\* them did, the screen shows its tree and nothing else, each link below its
\* master if that is at top level: twins are gone, and what was freed with a
\* master that vanished is back.  (A lifetime of one reading shows nothing at all.)
Settles ==
    pc = "draw" /\ reading /\ Lifecycles > 1 /\ calm >= SettleTime =>
        \A n \in Names :
            /\ Cardinality(Standing(n)) = IF IsReported(n) THEN 1 ELSE 0
            /\ n \in Links =>
                  LET m == {e \in Standing(kernel.master[n]) : e_parent[e] = NoElement}
                  IN  \A e \in Standing(n) :
                          e_parent[e] \in IF kernel.master[n] = NoName \/ m = {} THEN {NoElement} ELSE m
=============================================================================
