---------------------------- MODULE Authorization ----------------------------
(* The Authentication object of a worker thread (plugin.h, plugin.cpp,         *)
(* threaddata.cpp:1308): the ACL file and the password file, which each thread *)
(* reads again every two seconds when they changed, and the plugin, which the  *)
(* thread starts, reloads with the configuration and ends. The files and the   *)
(* plugin are not the program's: somebody writes the files while threads read  *)
(* them, and any call of the plugin may throw.                               *)
EXTENDS AclTree

CONSTANTS
    AclContents,    \* what the ACL file may hold at first: sequences of lines
    AclEdits,       \* what may be written to it later
    PasswdContents, \* what the password file may hold at any time: sequences of lines
    AclTopics,      \* topics to ask for, as sequences of levels
    UserNames,      \* user names, with "" for none
    ClientNames,    \* client ids
    PasswordHashes, \* what a password is, once it is hashed
    SameSecond,     \* whether a file is changed twice within a second
    MaxAuthTime, MaxAuthReloads     \* bounds on time and on reloads

ASSUME AuthAssumption == /\ MaxAuthTime \in Nat \ {0} /\ MaxAuthReloads \in Nat
                         /\ SameSecond \in BOOLEAN

VARIABLES
    authNow,    \* the clock of the file system, in seconds
    aclFile,    \* the ACL file: its lines, when it last changed, whether it can be read
    passwdFile, \* the password file, likewise
    aclTree,
    aclLastChange,      \* mosquittoAclFileLastChange, 0 before the first load
    passwords,          \* mosquittoPasswordEntries, a function from user names
    passwordsLoaded,    \* whether there are entries, of whatever file
    passwdLastLoad,     \* mosquittoPasswordFileLastLoad
    stat,       \* the change time of the file that is being loaded, with which file
    aclSeen, passwdSeen,    \* ghosts: the lines that the last load of a file found
    aclUsed,    \* ghost: the lines that the tree was made of
    pluginLoaded,       \* whether the configuration has a plugin
    initialized, quitting,
    plugin,     \* the plugin's own state, from what it was told last
    authStage,  \* what the thread does: "passwd", "acl" and "plugin" while it starts,
                \* then "runs", "stops", "ended"
    authReloads

aclVars == <<aclFile, aclTree, aclLastChange, aclSeen, aclUsed>>
passwdVars == <<passwdFile, passwords, passwordsLoaded, passwdLastLoad, passwdSeen>>
pluginVars == <<pluginLoaded, initialized, quitting, plugin, authStage, authReloads>>
authVars == <<authNow, aclVars, passwdVars, stat, pluginVars>>

NoStat == [file |-> "none", at |-> 0]

\* Lines of the ACL file. A line that cannot be understood makes the file invalid.
UserLine(name) == [word |-> "user", name |-> name]
TopicLine(filter, grant) == [word |-> "topic", filter |-> filter, grant |-> grant]
PatternLine(filter, grant) == [word |-> "pattern", filter |-> filter, grant |-> grant]
InvalidLine == [word |-> "invalid"]

\* Lines of the password file: a user with the hash of the password, or nonsense.
PasswdLine(name, hash) == [word |-> "entry", name |-> name, hash |-> hash]

\* What somebody who opens a file gets: nothing of one that is not readable any more.
Content(file) == IF file.readable THEN file.lines ELSE <<>>

\* A load is over: the thread that was starting goes on to its next step.
Loaded(file, next) ==
    /\ stat' = NoStat
    /\ authStage' = IF authStage = file THEN next ELSE authStage
    /\ UNCHANGED <<authNow, pluginLoaded, initialized, quitting, plugin, authReloads>>

-----------------------------------------------------------------------------
(* The ACL file.                                                             *)

\* The lines from first to last: a 'user' line counts for the 'topic' lines after it.
TreeOf(lines) ==
    LET read[i \in 0..Len(lines)] ==
            IF i = 0 THEN [tree |-> EmptyAclTree, currentUser |-> ""]
            ELSE LET line == lines[i]  before == read[i - 1]
                 IN  IF line.word = "user" THEN [before EXCEPT !.currentUser = line.name]
                     ELSE [before EXCEPT !.tree =
                             addTopic(@, line.filter, line.grant,
                                      IF line.word = "pattern" THEN "Patterns" ELSE "Strings",
                                      before.currentUser)]
    IN  read[Len(lines)].tree

\* One invalid line and the tree stays as it was. The file is not read again until it
\* changes.
loadMosquittoAclFile ==
    /\ stat.file = "acl"
    /\ LET lines == Content(aclFile)
           valid == \A i \in DOMAIN lines : lines[i].word # "invalid"
       IN  /\ aclTree' = IF valid THEN TreeOf(lines) ELSE aclTree
           /\ aclUsed' = IF valid THEN lines ELSE aclUsed
           /\ aclSeen' = lines
    /\ aclLastChange' = stat.at
    /\ Loaded("acl", "plugin")
    /\ UNCHANGED <<aclFile, passwdVars>>

\* No ACL at all without a file in the configuration; here there is one. It has no notion
\* of subscribing, and whoever registers a will must be able to read its topic.
aclCheckFromMosquittoAclFile(clientid, username, subtopics, access) ==
    access = "subscribe"
    \/ findPermission(aclTree, subtopics, IF access = "write" THEN "Write" ELSE "Read", username, clientid)

-----------------------------------------------------------------------------
(* The password file.                                                        *)

\* An invalid line is dropped, and the first line of a user counts.
EntriesOf(lines) ==
    LET valid == {i \in DOMAIN lines : lines[i].word = "entry"}
        FirstOf(name) == Min({i \in valid : lines[i].name = name})
    IN  [name \in {lines[i].name : i \in valid} |-> lines[FirstOf(name)].hash]

loadMosquittoPasswordFile ==
    /\ stat.file = "passwd"
    /\ LET lines == Content(passwdFile)
       IN  passwords' = EntriesOf(lines) /\ passwdSeen' = lines
    /\ passwordsLoaded' = TRUE
    /\ passwdLastLoad' = stat.at
    /\ Loaded("passwd", "acl")
    /\ UNCHANGED <<passwdFile, aclVars>>

\* "none" is an answer too: of a user that the file does not know.
loginCheckFromMosquittoPasswordFile(username, hash) ==
    IF ~passwordsLoaded THEN "login_denied"
    ELSE IF username \notin DOMAIN passwords THEN "none"
    ELSE IF passwords[username] = hash THEN "success"
    ELSE "login_denied"

-----------------------------------------------------------------------------
(* Answers. What the plugin says is up to it; "plugin" stands for its answer.   *)

PluginAnswer(otherwise) ==
    IF ~pluginLoaded THEN otherwise
    ELSE IF ~initialized THEN "error"
    ELSE "plugin"

\* A user that the password file knows must match there, or convince the plugin; one
\* that it does not know may log in when anonymous clients may, or when the plugin says so.
loginCheck(username, hash, allowAnonymous) ==
    LET fromFile == loginCheckFromMosquittoPasswordFile(username, hash)
        first == IF fromFile # "none" THEN fromFile
                 ELSE IF allowAnonymous THEN "success" ELSE "login_denied"
    IN  IF first = "success" THEN first ELSE PluginAnswer(first)

aclCheck(clientid, username, subtopics, access) ==
    IF ~aclCheckFromMosquittoAclFile(clientid, username, subtopics, access) THEN "acl_denied"
    ELSE PluginAnswer("success")

\* What FlashMQ publishes itself is written whatever the answer is.
aclWriteCheck(clientid, username, subtopics) ==
    LET answer == aclCheck(clientid, username, subtopics, "write")
    IN  IF clientid = "" THEN "success" ELSE answer

-----------------------------------------------------------------------------
(* Files change, and are looked at.                                          *)

AuthInit ==
    /\ authNow = 1
    /\ \E lines \in AclContents : aclFile = [lines |-> lines, at |-> 1, readable |-> TRUE]
    /\ aclTree = EmptyAclTree /\ aclLastChange = 0 /\ aclSeen = <<>> /\ aclUsed = <<>>
    /\ \E lines \in PasswdContents : passwdFile = [lines |-> lines, at |-> 1, readable |-> TRUE]
    /\ passwords = [name \in {} |-> ""] /\ passwordsLoaded = FALSE
    /\ passwdLastLoad = 0 /\ passwdSeen = <<>>
    /\ stat = NoStat
    /\ pluginLoaded \in BOOLEAN
    /\ initialized = FALSE /\ quitting = FALSE
    /\ plugin = "new" /\ authStage = "passwd" /\ authReloads = 0

AuthTick ==
    /\ authNow < MaxAuthTime /\ authStage # "ended"
    /\ authNow' = authNow + 1
    /\ UNCHANGED <<aclVars, passwdVars, stat, pluginVars>>

\* A file is written, or its permissions change: both change its change time.
MayChange(file) == authStage # "ended" /\ (SameSecond \/ authNow > file.at)

ChangeAclFile ==
    /\ MayChange(aclFile)
    /\ \E lines \in AclEdits, readable \in BOOLEAN :
        aclFile' = [lines |-> lines, at |-> authNow, readable |-> readable]
    /\ UNCHANGED <<authNow, aclTree, aclLastChange, aclSeen, aclUsed, passwdVars, stat, pluginVars>>

ChangePasswdFile ==
    /\ MayChange(passwdFile)
    /\ \E lines \in PasswdContents, readable \in BOOLEAN :
        passwdFile' = [lines |-> lines, at |-> authNow, readable |-> readable]
    /\ UNCHANGED <<authNow, aclVars, passwords, passwordsLoaded, passwdLastLoad, passwdSeen,
                   stat, pluginVars>>

\* Only the seconds of the change time are compared.
IsNew(file, lastLoad) == file.readable /\ file.at # lastLoad

Look(name, file, lastLoad) ==
    /\ stat = NoStat
    /\ authStage \in {name, "runs"}
    /\ IsNew(file, lastLoad)
    /\ stat' = [file |-> name, at |-> file.at]
    /\ UNCHANGED <<authNow, aclVars, passwdVars, pluginVars>>

LookAtAclFile == Look("acl", aclFile, aclLastChange)
LookAtPasswdFile == Look("passwd", passwdFile, passwdLastLoad)

\* At the start a file that is not there or cannot be read is left out.
GoOnWithoutFile ==
    /\ stat = NoStat
    /\ \/ authStage = "passwd" /\ ~IsNew(passwdFile, passwdLastLoad) /\ Loaded("passwd", "acl")
       \/ authStage = "acl" /\ ~IsNew(aclFile, aclLastChange) /\ Loaded("acl", "plugin")
    /\ UNCHANGED <<aclVars, passwdVars>>

-----------------------------------------------------------------------------
(* The plugin. 'failing' is the call that throws, or "none". The tasks of a    *)
(* thread are performed one after the other.                                 *)

BetweenLoads == stat = NoStat /\ UNCHANGED <<authNow, aclVars, passwdVars, stat>>

\* loadPlugin, init and securityInit at the start of the thread. When one throws the
\* thread does not run, the whole broker stops.
initplugin ==
    /\ authStage = "plugin"
    /\ \E failing \in IF pluginLoaded THEN {"allocate", "init", "none"} ELSE {"none"} :
        /\ plugin' = CASE ~pluginLoaded -> plugin
                       [] failing = "allocate" -> "new"
                       [] failing = "init" -> "allocated"
                       [] OTHER -> "ready"
        /\ authStage' = IF failing = "none" THEN "runs" ELSE "stops"
    /\ initialized' = pluginLoaded
    /\ UNCHANGED <<pluginLoaded, quitting, authReloads>>
    /\ BetweenLoads

\* The reload of a thread: a bridge's TLS context comes first, and when that cannot be
\* made the plugin is left as it is. Security checks fail from the moment that
\* securityCleanup begins until securityInit is through.
reload ==
    /\ authStage = "runs" /\ authReloads < MaxAuthReloads
    /\ authReloads' = authReloads + 1
    /\ \E failing \in {"ssl", "deinit", "init", "none"} :
        IF failing = "ssl" \/ ~pluginLoaded
        THEN UNCHANGED <<initialized, plugin>>
        ELSE /\ initialized' = (failing = "none" /\ ~quitting)
             /\ plugin' = CASE failing = "deinit" -> "unknown"
                            [] failing = "init" \/ quitting -> "allocated"
                            [] OTHER -> "ready"
    /\ UNCHANGED <<pluginLoaded, quitting, authStage>>
    /\ BetweenLoads

\* The worker sets quitting as it puts the quit in its queue, behind a reload that may
\* be there already.
setQuitting ==
    /\ authStage = "runs" /\ ~quitting
    /\ quitting' = TRUE
    /\ UNCHANGED <<pluginLoaded, initialized, plugin, authStage, authReloads>>
    /\ BetweenLoads

quitAuth ==
    /\ authStage = "runs" /\ quitting
    /\ authStage' = "stops"
    /\ UNCHANGED <<pluginLoaded, initialized, quitting, plugin, authReloads>>
    /\ BetweenLoads

\* A plugin that throws as it ends keeps its memory.
cleanup ==
    /\ authStage = "stops"
    /\ authStage' = "ended"
    /\ initialized' = FALSE
    /\ plugin' \in IF pluginLoaded THEN {"unknown", "gone"} ELSE {plugin}
    /\ UNCHANGED <<pluginLoaded, quitting, authReloads>>
    /\ BetweenLoads

AuthNext ==
    \/ AuthTick \/ ChangeAclFile \/ ChangePasswdFile
    \/ LookAtAclFile \/ loadMosquittoAclFile
    \/ LookAtPasswdFile \/ loadMosquittoPasswordFile
    \/ GoOnWithoutFile
    \/ initplugin \/ reload \/ setQuitting \/ quitAuth \/ cleanup

-----------------------------------------------------------------------------
(* Properties.                                                               *)

AuthTypeOK ==
    /\ authNow \in 1..MaxAuthTime
    /\ aclFile.at \in 1..authNow /\ passwdFile.at \in 1..authNow
    /\ aclLastChange \in 0..authNow /\ passwdLastLoad \in 0..authNow
    /\ stat.file \in {"none", "acl", "passwd"} /\ stat.at \in 0..authNow
    /\ plugin \in {"new", "allocated", "ready", "unknown", "gone"}
    /\ authStage \in {"passwd", "acl", "plugin", "runs", "stops", "ended"}
    /\ authReloads \in 0..MaxAuthReloads

\* What the lines of an ACL file say, each on its own: whose line it is, and which topics
\* it is about, with %u and %c in a pattern for what the client is called.
OwnerOf(lines, i) ==
    LET users == {j \in 1..(i - 1) : lines[j].word = "user"}
    IN  IF users = {} THEN "" ELSE lines[Max(users)].name

IsAbout(line, subtopics, username, clientid) ==
    LET filter == line.filter
        open == filter # <<>> /\ Last(filter) = "#"
        levels == IF open THEN Len(filter) - 1 ELSE Len(filter)
    IN  /\ IF open THEN levels <= Len(subtopics) ELSE levels = Len(subtopics)
        /\ \A i \in 1..levels :
            \/ filter[i] \in {"+", subtopics[i]}
            \/ /\ line.word = "pattern"
               /\ <<filter[i], subtopics[i]>> \in {<<"%u", username>>, <<"%c", clientid>>}

LinesSay(lines, subtopics, access, username, clientid) ==
    LET about == {i \in DOMAIN lines :
                    /\ lines[i].word \in {"topic", "pattern"}
                    /\ lines[i].word = "topic" => OwnerOf(lines, i) = username
                    /\ IsAbout(lines[i], subtopics, username, clientid)}
    IN  /\ \E i \in about : lines[i].grant \in {access, "ReadWrite"}
        /\ \A i \in about : lines[i].grant # "Deny"

\* The tree answers as the lines it was made of say, one by one, in whatever order and
\* overlap they are in the file (acltree.cpp:209).
AclIsFollowed ==
    \A subtopics \in AclTopics, access \in {"Read", "Write"}, username \in UserNames, clientid \in ClientNames :
        findPermission(aclTree, subtopics, access, username, clientid)
            = LinesSay(aclUsed, subtopics, access, username, clientid)

\* A file that will not be looked at again, because it is not newer than the last load,
\* is as it was loaded (plugin.cpp:717 and 808), and what the thread uses is from there,
\* unless the ACL file was invalid.
NothingIsMissed ==
    /\ (stat = NoStat /\ aclLastChange = aclFile.at) =>
        /\ aclSeen = Content(aclFile)
        /\ (\A i \in DOMAIN aclSeen : aclSeen[i].word # "invalid") => aclUsed = aclSeen
    /\ (stat = NoStat /\ passwdLastLoad = passwdFile.at) => passwdSeen = Content(passwdFile)

\* Somebody logs in by the password file only with the password of the first line with
\* that name, and nobody before it could be read (plugin.cpp:904).
PasswordsAreFollowed ==
    \A username \in UserNames, hash \in PasswordHashes :
        (loginCheckFromMosquittoPasswordFile(username, hash) = "success") =>
            \E i \in DOMAIN passwdSeen :
                /\ passwdSeen[i] = PasswdLine(username, hash)
                /\ \A j \in 1..(i - 1) : passwdSeen[j].word = "entry" => passwdSeen[j].name # username

\* As long as clients are served, a check is left to the plugin only when the plugin is
\* ready; after a reload that went wrong it fails for everybody (threaddata.cpp:1348).
PluginIsReady ==
    authStage = "runs" =>
        \A username \in UserNames, hash \in PasswordHashes, allowAnonymous \in BOOLEAN :
            loginCheck(username, hash, allowAnonymous) = "plugin" => plugin = "ready"

AuthorizationIsSound ==
    AuthTypeOK /\ AclIsFollowed /\ NothingIsMissed /\ PasswordsAreFollowed /\ PluginIsReady
=============================================================================
