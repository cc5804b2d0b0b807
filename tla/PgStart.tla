------------------------------ MODULE PgStart ------------------------------
(***************************************************************************)
(* pg/start, the program of the pg container: it makes the database        *)
(* cluster on the volume and becomes the server.  The container may be     *)
(* stopped or killed between any two commands and started again; the       *)
(* volume, and with it what the commands have done so far, is kept.        *)
(*                                                                         *)
(* The script has no "set -e": a command that fails is passed over.  The   *)
(* test that should make it run once reads [ ! -f PWFILE ], without the    *)
(* dollar sign; no file of that name is ever made, so the test always      *)
(* succeeds and is not an action of its own.                               *)
(***************************************************************************)
EXTENDS Naturals

CONSTANTS
    Password,       \* the passwords there are
    NoPassword,
    Kills,          \* bound: how often the container is stopped
    InitdbMayFail   \* initdb may fail, or be killed half-way

ASSUME PasswordAssumption == Password # {} /\ NoPassword \notin Password
ASSUME BoundAssumption == Kills \in Nat /\ InitdbMayFail \in BOOLEAN

VARIABLES
    env,       \* PASSWORD in the environment of the container, or none
    pwfile,    \* ${PWFILE}: absent, or the password in it (none, when just made)
    cluster,   \* ${PGDATA}: absent, empty, made, what an initdb left that was
               \* killed (broken or bare), dirty (a pg_hba.conf only)
    superuser, \* the password of the user postgres in the cluster
    conf,      \* postgresql.conf: absent, initial (as initdb made it), listens
    hba,       \* pg_hba.conf: absent, trust (as initdb made it), local (only
               \* the first line yet), md5 (complete)
    shown,     \* the password that was logged last
    pc,
    kills

pgVars == <<env, pwfile, cluster, superuser, conf, hba, shown, pc, kills>>

PgInit ==
    /\ env \in Password \cup {NoPassword}
    /\ pwfile = "absent"
    /\ cluster = "absent"
    /\ superuser = NoPassword
    /\ conf = "absent"
    /\ hba = "absent"
    /\ shown = NoPassword
    /\ pc = "mkdir"
    /\ kills = 0

-----------------------------------------------------------------------------
\* Wrong on purpose: the test looks for ${PWFILE}, so that the set-up runs only
\* if that file is not there yet.
MkDir_Once ==
    /\ pc = "mkdir"
    /\ IF pwfile = "absent"
       THEN cluster' = IF cluster = "absent" THEN "empty" ELSE cluster
       ELSE UNCHANGED cluster
    /\ pc' = IF pwfile = "absent" THEN "install" ELSE "exec"
    /\ UNCHANGED <<env, pwfile, superuser, conf, hba, shown, kills>>

\* mkdir -p, chown, chmod
MkDir ==
    /\ pc = "mkdir"
    /\ cluster' = IF cluster = "absent" THEN "empty" ELSE cluster
    /\ pc' = "install"
    /\ UNCHANGED <<env, pwfile, superuser, conf, hba, shown, kills>>

\* install /dev/null ${PWFILE}: the file is made, or emptied
Install ==
    /\ pc = "install"
    /\ pwfile' = NoPassword
    /\ pc' = "password"
    /\ UNCHANGED <<env, cluster, superuser, conf, hba, shown, kills>>

\* echo "${PASSWORD:-`pwgen -s 20 1`}" > ${PWFILE}
NewPassword ==
    /\ pc = "password"
    /\ pwfile' \in IF env # NoPassword THEN {env} ELSE Password
    /\ pc' = "initdb"
    /\ UNCHANGED <<env, cluster, superuser, conf, hba, shown, kills>>

\* What an initdb leaves that is killed.  Until its bootstrap is done, postgres
\* does not start on it, and either file may be there or not.  After that it
\* does: the files are there, and the password may be set yet or not.
Interrupted ==
    \/ /\ cluster' = "broken"
       /\ conf' \in {"absent", "initial"} /\ hba' \in {"absent", "trust"}
       /\ UNCHANGED superuser
    \/ /\ cluster' = "bare"
       /\ conf' = "initial" /\ hba' = "trust" /\ superuser' \in {NoPassword, pwfile}

\* initdb refuses a directory that is not empty; when it fails it removes what
\* it has made, which it cannot when it is killed.
Initdb ==
    /\ pc = "initdb"
    /\ \/ /\ cluster = "empty"
          /\ cluster' = "made" /\ superuser' = pwfile /\ conf' = "initial" /\ hba' = "trust"
       \/ /\ cluster # "empty" \/ InitdbMayFail
          /\ UNCHANGED <<cluster, superuser, conf, hba>>
       \/ cluster = "empty" /\ InitdbMayFail /\ Interrupted
    /\ pc' = "listen"
    /\ UNCHANGED <<env, pwfile, shown, kills>>

\* sed -i on postgresql.conf, which must be there; again it changes nothing
Listen ==
    /\ pc = "listen"
    /\ conf' = IF conf = "absent" THEN conf ELSE "listens"
    /\ pc' = "hba"
    /\ UNCHANGED <<env, pwfile, cluster, superuser, hba, shown, kills>>

\* echo ... > pg_hba.conf
Hba ==
    /\ pc = "hba"
    /\ hba' = "local"
    /\ cluster' = IF cluster = "empty" THEN "dirty" ELSE cluster
    /\ pc' = "hba2"
    /\ UNCHANGED <<env, pwfile, superuser, conf, shown, kills>>

\* echo ... >> pg_hba.conf
Hba2 ==
    /\ pc = "hba2"
    /\ hba' = "md5"
    /\ pc' = "show"
    /\ UNCHANGED <<env, pwfile, cluster, superuser, conf, shown, kills>>

\* echo "PGPASSWORD=`cat ${PWFILE}`"
Show ==
    /\ pc = "show"
    /\ shown' = pwfile
    /\ pc' = "exec"
    /\ UNCHANGED <<env, pwfile, cluster, superuser, conf, hba, kills>>

\* exec postgres, on whatever is in ${PGDATA}: it serves, or exits because that
\* is no cluster.
Exec ==
    /\ pc = "exec"
    /\ pc' = IF cluster \in {"made", "bare"} THEN "serving" ELSE "failed"
    /\ UNCHANGED <<env, pwfile, cluster, superuser, conf, hba, shown, kills>>

Script == \/ MkDir \/ Install \/ NewPassword \/ Initdb \/ Listen \/ Hba \/ Hba2 \/ Show
          \/ Exec

-----------------------------------------------------------------------------
\* The container is stopped, at any place, and started again; the log begins
\* anew.
Kill ==
    /\ kills < Kills
    /\ kills' = kills + 1
    /\ pc' = "mkdir"
    /\ shown' = NoPassword
    /\ \/ UNCHANGED <<cluster, superuser, conf, hba>>
       \/ pc = "initdb" /\ cluster = "empty" /\ InitdbMayFail /\ Interrupted
    /\ UNCHANGED <<env, pwfile>>

PgNext == Script \/ Kill

PgSpec == PgInit /\ [][PgNext]_pgVars

\* The shell goes on to its next command.
PgFairSpec == PgSpec /\ WF_pgVars(Script)

-----------------------------------------------------------------------------
\* Properties

\* A server that runs listens and asks everybody on the network for a password,
\* wherever the script or initdb was stopped before: no half of what the script
\* does is taken for the whole.  It also has a password to ask for, unless its
\* initdb was killed before it set one; then nobody gets in from the network.
SetUpIsComplete ==
    pc = "serving" =>
        conf = "listens" /\ hba = "md5" /\ (superuser \in Password \/ cluster = "bare")

\* The server comes up in the end, wherever and however often the container was
\* stopped, unless initdb failed or was killed before its bootstrap was done:
\* nothing removes what is then in ${PGDATA}, and no later initdb accepts it.
ServesInTheEnd == <>[](pc = "serving" \/ cluster \in {"broken", "dirty"})

\* A password that is logged ("log the postgres user/password") is the one that
\* the server accepts.  This does not hold: without PASSWORD every start logs
\* another one, and the cluster keeps that of the first.
ShownPasswordWorks == pc = "serving" /\ shown # NoPassword => shown = superuser
=============================================================================
