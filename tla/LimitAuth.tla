----------------------------- MODULE LimitAuth ------------------------------
(***************************************************************************)
(* The permissions of accounts: the native actions updateauth, deleteauth, *)
(* linkauth and unlinkauth, and limitauthchg of flon.system, by which an   *)
(* account restricts who may use them.                                     *)
(*                                                                         *)
(* The host executes the native actions: it keeps the tree of permissions, *)
(* wants one declared permission of the account on them, and checks that   *)
(* it stands above the one to be changed.  Then the contract has its say.  *)
(* Of the links only that of limitauthchg is kept; the native actions      *)
(* themselves cannot be linked.  A vector of permissions is the set of its *)
(* members.                                                                *)
(***************************************************************************)
EXTENDS Integers, FiniteSets

CONSTANTS
    Accounts,
    Custom,          \* names of permissions beside owner and active
    Holders      \* keys and accounts that may satisfy a permission

ASSUME LimitAuthAssumption ==
    /\ IsFiniteSet(Custom)
    /\ Custom \cap {"owner", "active", "none", "flon.any"} = {}

VARIABLES
    parents,      \* the permissions of each account, with their parents
    auths,        \* their authorities
    links,        \* the permission linked to limitauthchg, or none
    limits,       \* limit_auth_change_table; no row: both lists empty
    signer        \* history: the permission that signed the last change

permvars == <<parents, auths, links, limits, signer>>

Permissions == {"owner", "active"} \cup Custom

LimitAuthChange ==
    [ allow_perms : SUBSET Permissions, disallow_perms : SUBSET Permissions ]

NoRow == [ allow_perms |-> {}, disallow_perms |-> {} ]

(* newaccount creates owner and active.                                    *)
PermInit ==
    /\ parents = [a \in Accounts |-> [p \in {"owner", "active"} |->
          IF p = "owner" THEN "none" ELSE "owner"]]
    /\ auths \in [Accounts -> [{"owner", "active"} -> Holders]]
    /\ links = [a \in Accounts |-> "none"]
    /\ limits = [a \in Accounts |-> NoRow]
    /\ signer = "none"

-----------------------------------------------------------------------------
(* The host.                                                               *)

PermsOf(a) == DOMAIN parents[a]

(* p and the permissions above it; each satisfies p.                       *)
Above(a, p) ==
    LET up[n \in 0..Cardinality(PermsOf(a))] ==
            IF n = 0 THEN {p}
            ELSE up[n - 1] \cup {parents[a][q] : q \in up[n - 1] \ {"owner"}}
    IN  up[Cardinality(PermsOf(a))]

(* What signs limitauthchg: the linked permission, active without a link,  *)
(* any permission with a link to flon.any.                                 *)
MaySign(a, p) ==
    CASE links[a] = "flon.any" -> p \in PermsOf(a)
      [] links[a] = "none"     -> p \in Above(a, "active")
      [] OTHER                 -> p \in Above(a, links[a])

-----------------------------------------------------------------------------
(* limitauthchg.                                                           *)

(* Mutant: the lists may leave the owner out.                              *)
ValidLists_Ownerless(allow, disallow) == allow = {} \/ disallow = {}

(* At most one of the lists is used, and neither shuts out the owner.      *)
ValidLists(allow, disallow) ==
    /\ allow = {} \/ disallow = {}
    /\ allow # {} => "owner" \in allow
    /\ "owner" \notin disallow

(* Two empty lists erase the row.                                          *)
limitauthchg(a, p, allow, disallow) ==
    /\ ValidLists(allow, disallow)
    /\ MaySign(a, p)
    /\ limits' = [limits EXCEPT ![a] =
          [ allow_perms |-> allow, disallow_perms |-> disallow ]]
    /\ signer' = p
    /\ UNCHANGED <<parents, auths, links>>

(* Mutant: without authorized_by nothing is checked.                       *)
check_auth_change_Silent(a, p, by) ==
    by # "none" =>
        /\ by = p
        /\ IF limits[a].allow_perms # {} THEN by \in limits[a].allow_perms
                                         ELSE by \notin limits[a].disallow_perms

(* The check before a change signed by permission p; by is authorized_by,  *)
(* none if it is missing or empty.                                         *)
check_auth_change(a, p, by) ==
    /\ by # "none" => by = p
    /\ limits[a] # NoRow =>
          /\ by # "none"
          /\ IF limits[a].allow_perms # {} THEN by \in limits[a].allow_perms
                                           ELSE by \notin limits[a].disallow_perms

-----------------------------------------------------------------------------
(* The native actions.                                                     *)

Put(f, x, v) == [y \in DOMAIN f \cup {x} |-> IF y = x THEN v ELSE f[y]]

(* A permission that exists keeps its parent; a new one is put under a     *)
(* permission that the signer satisfies.                                   *)
updateauth(a, p, by, permission, parent, auth) ==
    /\ check_auth_change(a, p, by)
    /\ IF permission \in PermsOf(a)
       THEN parent = parents[a][permission] /\ p \in Above(a, permission)
       ELSE parent \in PermsOf(a) /\ p \in Above(a, parent)
    /\ parents' = [parents EXCEPT ![a] = Put(@, permission, parent)]
    /\ auths' = [auths EXCEPT ![a] = Put(@, permission, auth)]
    /\ signer' = p
    /\ UNCHANGED <<links, limits>>

(* A leaf that is not linked.                                              *)
deleteauth(a, p, by, permission) ==
    /\ permission \in PermsOf(a) \ {"owner", "active", links[a]}
    /\ \A q \in PermsOf(a) : parents[a][q] # permission
    /\ p \in Above(a, permission)
    /\ check_auth_change(a, p, by)
    /\ parents' = [parents EXCEPT ![a] =
          [q \in PermsOf(a) \ {permission} |-> parents[a][q]]]
    /\ auths' = [auths EXCEPT ![a] =
          [q \in PermsOf(a) \ {permission} |-> auths[a][q]]]
    /\ signer' = p
    /\ UNCHANGED <<links, limits>>

linkauth(a, p, by, requirement) ==
    /\ requirement \in PermsOf(a) \cup {"flon.any"}
    /\ requirement # links[a]
    /\ MaySign(a, p)
    /\ check_auth_change(a, p, by)
    /\ links' = [links EXCEPT ![a] = requirement]
    /\ signer' = p
    /\ UNCHANGED <<parents, auths, limits>>

unlinkauth(a, p, by) ==
    /\ links[a] # "none"
    /\ MaySign(a, p)
    /\ check_auth_change(a, p, by)
    /\ links' = [links EXCEPT ![a] = "none"]
    /\ signer' = p
    /\ UNCHANGED <<parents, auths, limits>>

PermNext ==
    \E a \in Accounts : \E p \in PermsOf(a) :
        \/ \E allow, disallow \in SUBSET Permissions : limitauthchg(a, p, allow, disallow)
        \/ \E by \in {p, "none"} :    \* any other is refused
              \/ \E permission \in Permissions, parent \in Permissions \cup {"none"},
                    auth \in Holders : updateauth(a, p, by, permission, parent, auth)
              \/ \E permission \in Permissions : deleteauth(a, p, by, permission)
              \/ \E r \in Permissions \cup {"flon.any"} : linkauth(a, p, by, r)
              \/ unlinkauth(a, p, by)

PermSpec == PermInit /\ [][PermNext]_permvars

-----------------------------------------------------------------------------
(* Properties.                                                             *)

PermTypeOK ==
    /\ \A a \in Accounts :
          /\ {"owner", "active"} \subseteq PermsOf(a) /\ PermsOf(a) \subseteq Permissions
          /\ auths[a] \in [PermsOf(a) -> Holders]
          /\ links[a] \in PermsOf(a) \cup {"none", "flon.any"}
    /\ limits \in [Accounts -> LimitAuthChange]
    /\ signer \in Permissions \cup {"none"}

(* No restriction locks an account: whatever was listed, deleted, created  *)
(* again or linked since, its owner may change every permission and every  *)
(* link of it, and lift the restriction.                                   *)
OwnerNotLockedOut ==
    /\ PermTypeOK
    /\ \A a \in Accounts :
          /\ check_auth_change(a, "owner", "owner")
          /\ \A p \in PermsOf(a) : "owner" \in Above(a, p)
          /\ MaySign(a, "owner")

(* Excluded by the restriction that the account has made.                  *)
Excluded(a, p) ==
    \/ limits[a].allow_perms # {} /\ p \notin limits[a].allow_perms
    \/ p \in limits[a].disallow_perms

(* An excluded permission is powerless once limitauthchg is linked to one  *)
(* that it does not satisfy: it can neither make a change nor undo the     *)
(* restriction or the link that keep it out, with authorized_by or without.*)
ExcludedIsPowerless ==
    [][\A a \in Accounts, p \in Permissions :
          Excluded(a, p) /\ ~MaySign(a, p) =>
              \/ signer' # p
              \/ UNCHANGED <<parents[a], auths[a], links[a], limits[a]>>]_permvars
=============================================================================
