------------------------------- MODULE AclTree -------------------------------
(* The permissions of the ACL file (acltree.h, acltree.cpp): a tree of topic   *)
(* levels for clients without a user name, one for each user that the file     *)
(* names, and one for the patterns, which are for everybody. A grant on '#'    *)
(* belongs to the level above it, it is no level of its own.                   *)
(*                                                                           *)
(* A tree is a function from paths, which are sequences of levels, to nodes.   *)
(* What the vectors of grants tell apart is which grants are in them, so they  *)
(* are sets here.                                                            *)
EXTENDS Sequences, SequencesExt, FiniteSets, Integers

AclGrants == {"Deny", "Read", "Write", "ReadWrite"}

\* The two levels that patterns replace by what the client is called.
UserWildcard == "%u"
ClientidWildcard == "%c"

AclNode == [grants |-> {}, grantsPound |-> {}, userWildcard |-> FALSE, clientidWildcard |-> FALSE]

EmptyRoot == [path \in {<<>>} |-> AclNode]

\* The member that AclTree looks at before it searches a root is false from the
\* start, so no root ever counts as empty (acltree.h:41).
isEmpty(root) == FALSE

EmptyAclTree == [rootAnonymous |-> EmptyRoot,
                 rootPerUser |-> [user \in {} |-> EmptyRoot],
                 rootPatterns |-> EmptyRoot]

-----------------------------------------------------------------------------
(* Building the tree.                                                        *)

\* The levels of a topic filter before its '#'.
LevelsOf(filter) == IF filter # <<>> /\ Last(filter) = "#" THEN Front(filter) ELSE filter

\* A node that is created below one of the patterns tells its parent when it is one of
\* the two levels to replace.
WithNode(root, path, registerPattern) ==
    IF path \in DOMAIN root THEN root
    ELSE LET parent == Front(path)
             told == [root[parent] EXCEPT
                        !.userWildcard = @ \/ (registerPattern /\ Last(path) = UserWildcard),
                        !.clientidWildcard = @ \/ (registerPattern /\ Last(path) = ClientidWildcard)]
         IN  [p \in DOMAIN root \union {path} |->
                CASE p = path -> AclNode
                  [] p = parent -> told
                  [] OTHER -> root[p]]

\* The way to a node: the nodes on it that are not there yet are created.
WithPath(root, levels, registerPattern) ==
    LET upTo[i \in 0..Len(levels)] ==
            IF i = 0 THEN root
            ELSE WithNode(upTo[i - 1], SubSeq(levels, 1, i), registerPattern)
    IN  upTo[Len(levels)]

Granted(root, filter, grant, registerPattern) ==
    LET end == LevelsOf(filter)
        made == WithPath(root, end, registerPattern)
    IN  IF end = filter THEN [made EXCEPT ![end].grants = @ \union {grant}]
                        ELSE [made EXCEPT ![end].grantsPound = @ \union {grant}]

\* The user name is ignored for patterns, and no name is that of the anonymous ones.
addTopic(tree, filter, grant, type, username) ==
    IF type = "Patterns"
    THEN [tree EXCEPT !.rootPatterns = Granted(@, filter, grant, TRUE)]
    ELSE IF username = ""
    THEN [tree EXCEPT !.rootAnonymous = Granted(@, filter, grant, FALSE)]
    ELSE LET perUser == tree.rootPerUser
             root == IF username \in DOMAIN perUser THEN perUser[username] ELSE EmptyRoot
         IN  [tree EXCEPT !.rootPerUser =
                [u \in DOMAIN perUser \union {username} |->
                    IF u = username THEN Granted(root, filter, grant, FALSE) ELSE perUser[u]]]

-----------------------------------------------------------------------------
(* Searching it. A search walks all ways that match at once, level by level.   *)

\* The children of a node that a level of a published topic leads to.
ChildrenFor(root, path, level, username, clientid) ==
    LET node == root[path]
        names == {level, "+"}
                 \union {w \in {UserWildcard} : node.userWildcard /\ level = username}
                 \union {w \in {ClientidWildcard} : node.clientidWildcard /\ level = clientid}
    IN  {Append(path, name) : name \in names} \cap DOMAIN root

findPermissionRecursive(root, subtopics, username, clientid) ==
    LET reached[i \in 0..Len(subtopics)] ==
            IF i = 0 THEN {<<>>}
            ELSE UNION {ChildrenFor(root, path, subtopics[i], username, clientid) : path \in reached[i - 1]}
        ends == reached[Len(subtopics)]
        onTheWay == UNION {reached[i] : i \in 0..Len(subtopics)}
    IN  UNION {root[path].grants : path \in ends} \union UNION {root[path].grantsPound : path \in onTheWay}

Allows(grant, access) == grant \in {access, "ReadWrite"}

\* Mutant: a deny of a pattern is for nobody.
findPermissionOfOwn(tree, subtopics, access, username, clientid) ==
    LET Find(root) == findPermissionRecursive(root, subtopics, username, clientid)
        own == IF username = "" THEN Find(tree.rootAnonymous)
               ELSE IF username \in DOMAIN tree.rootPerUser THEN Find(tree.rootPerUser[username])
               ELSE {}
    IN  /\ "Deny" \notin own
        /\ \E grant \in own \union Find(tree.rootPatterns) : Allows(grant, access)

\* Whether a client may read or write a topic. A deny of its own root ends the search,
\* a deny of a pattern overrides everything else.
findPermission(tree, subtopics, access, username, clientid) ==
    LET Find(root) == findPermissionRecursive(root, subtopics, username, clientid)
        own == IF username = "" /\ ~isEmpty(tree.rootAnonymous) THEN Find(tree.rootAnonymous)
               ELSE IF username \in DOMAIN tree.rootPerUser /\ ~isEmpty(tree.rootPerUser[username])
               THEN Find(tree.rootPerUser[username])
               ELSE {}
        collected == own \union (IF isEmpty(tree.rootPatterns) THEN {} ELSE Find(tree.rootPatterns))
    IN  /\ "Deny" \notin own
        /\ "Deny" \notin collected
        /\ \E grant \in collected : Allows(grant, access)
=============================================================================
