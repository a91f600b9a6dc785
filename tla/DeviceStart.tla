----------------------------- MODULE DeviceStart ------------------------------
(***************************************************************************)
(* How oclvanitygen opens its devices, one after the other (main of        *)
(* oclvanitygen.c, vg_ocl_init and vg_ocl_load_program of oclengine.c), as  *)
(* one of several processes that keep compiled kernels in the same         *)
(* directory.  The directory outlives them: a process that starts after    *)
(* another has died is one that has not taken its first step.              *)
(***************************************************************************)
EXTENDS Naturals, Sequences, FiniteSets

CONSTANTS Processes,
          Names,          \* of binaries: hashes of a device's model, options and source
          Hash,           \* the names for the devices of each process's command line
          NoBinaries,     \* the names for devices with VG_OCL_NO_BINARIES
          Blocks,         \* the writes that a binary takes
          NoFile

\* What the module that instantiates this one assumes of the constants.
StartAssumption == /\ Hash \in [Processes -> Seq(Names) \ {<<>>}]
                   /\ Blocks \in Nat \ {0}

VARIABLES file,        \* the directory: the file of each name, if any
          binary,      \* the blocks in each file, which is called after its creator
          at,          \* where each process is
          nth,         \* the device it opens
          fromsource,
          kfp, offset, \* the file it writes, and how far it is
          vc_threads,  \* the devices whose execution context is in the list
          opened,      \* the devices that main has counted
          objects,     \* <<device, kind>>: OpenCL objects
          lost,        \* history: devices freed while in the list
          died         \* history: a process has died while writing

dirvars == <<file, binary, kfp, offset, died>>
devicevars == <<vc_threads, opened, objects, lost>>
startvars == <<dirvars, at, nth, fromsource, devicevars>>

DevicesOf(p) == DOMAIN Hash[p]
Kinds == {"context", "queue", "program", "kernels"}
Files == UNION {{p} \X DevicesOf(p) : p \in Processes}
Whole == 1..Blocks

Init == /\ file = [n \in Names |-> NoFile]
        /\ binary = [f \in Files |-> {}]
        /\ at = [p \in Processes |-> "open"]
        /\ nth = [p \in Processes |-> 1]
        /\ fromsource = [p \in Processes |-> FALSE]
        /\ kfp = [p \in Processes |-> NoFile]
        /\ offset = [p \in Processes |-> 0]
        /\ vc_threads = [p \in Processes |-> {}]
        /\ opened = [p \in Processes |-> {}]
        /\ objects = [p \in Processes |-> {}]
        /\ lost = [p \in Processes |-> {}]
        /\ died = FALSE

Go(p, to) == at' = [at EXCEPT ![p] = to]
Put(f, p, v) == [f EXCEPT ![p] = v]

Name(p) == Hash[p][nth[p]]
Kept(p) == Name(p) \notin NoBinaries
Created(p, kinds) == Put(objects, p, objects[p] \cup ({nth[p]} \X kinds))
Released(p, kinds) == Put(objects, p, objects[p] \ ({nth[p]} \X kinds))

\* main goes on with the next device, whether or not it has this one.
Tried(p) == /\ nth' = Put(nth, p, nth[p] + 1)
            /\ Go(p, IF nth[p] < Len(Hash[p]) THEN "open" ELSE "start")

-------------------------------------------------------------------------------
(* vg_ocl_init: the execution context is in the list before anything can fail.  *)
(* When something does, vg_ocl_context_new frees it there (without vg_ocl_del). *)

Listed(p) == Put(vc_threads, p, vc_threads[p] \cup {nth[p]})
Lose(p) == lost' = Put(lost, p, lost[p] \cup {nth[p]}) /\ Tried(p)

NoDevice(p) == /\ at[p] = "open"
               /\ Tried(p)
               /\ UNCHANGED <<dirvars, fromsource, devicevars>>

Open(p) == /\ at[p] = "open"
           /\ vc_threads' = Listed(p)
           /\ objects' = Created(p, {"context", "queue"})
           /\ Go(p, "load")
           /\ UNCHANGED <<dirvars, nth, fromsource, opened, lost>>

OpenFails(p) == /\ at[p] = "open"
                /\ vc_threads' = Listed(p)
                /\ \E some \in {{}, {"context"}} : objects' = Created(p, some)
                /\ Lose(p)
                /\ UNCHANGED <<dirvars, fromsource, opened>>

-------------------------------------------------------------------------------
(* vg_ocl_load_program *)

LoadSource(p) == /\ at[p] = "load"
                 /\ Kept(p) => file[Name(p)] = NoFile
                 /\ fromsource' = Put(fromsource, p, TRUE)
                 /\ Go(p, "build")
                 /\ UNCHANGED <<dirvars, nth, devicevars>>

\* The library builds no program from a binary that is not whole.
LoadBinary(p) == /\ at[p] = "load"
                 /\ Kept(p) /\ file[Name(p)] # NoFile
                 /\ binary[file[Name(p)]] = Whole
                 /\ fromsource' = Put(fromsource, p, FALSE)
                 /\ Go(p, "build")
                 /\ UNCHANGED <<dirvars, nth, devicevars>>

ReadsShort(p) == /\ at[p] = "load"
                 /\ Kept(p) /\ file[Name(p)] # NoFile
                 /\ binary[file[Name(p)]] # Whole

LoadShort(p) == /\ ReadsShort(p)
                /\ Lose(p)
                /\ UNCHANGED <<dirvars, fromsource, vc_threads, opened, objects>>

Build(p) == /\ at[p] = "build"
            /\ objects' = Created(p, {"program"})
            /\ Go(p, IF fromsource[p] /\ Kept(p) THEN "save" ELSE "kernels")
            /\ UNCHANGED <<dirvars, nth, fromsource, vc_threads, opened, lost>>

\* No source file, no memory, or the compiler fails.
BuildFails(p) == /\ at[p] \in {"load", "build"}
                 /\ Lose(p)
                 /\ UNCHANGED <<dirvars, fromsource, vc_threads, opened, objects>>

SkipSave(p) == /\ at[p] = "save"
               /\ Go(p, "kernels")
               /\ UNCHANGED <<dirvars, nth, fromsource, devicevars>>

\* The file of that name, which a process that has compiled the same meanwhile may
\* write too, or a new one.
Target(p) == IF file[Name(p)] = NoFile THEN <<p, nth[p]>> ELSE file[Name(p)]

OpenFile(p) == /\ at[p] = "save"
               /\ file' = [file EXCEPT ![Name(p)] = Target(p)]
               /\ binary' = [binary EXCEPT ![Target(p)] = {}]
               /\ kfp' = Put(kfp, p, Target(p))
               /\ offset' = Put(offset, p, 0)
               /\ Go(p, "write")
               /\ UNCHANGED <<died, nth, fromsource, devicevars>>

Write(p) == /\ at[p] = "write" /\ offset[p] < Blocks
            /\ binary' = [binary EXCEPT ![kfp[p]] = @ \cup {offset[p] + 1}]
            /\ offset' = Put(offset, p, offset[p] + 1)
            /\ UNCHANGED <<file, kfp, died, at, nth, fromsource, devicevars>>

Close(p) == /\ at[p] = "write"
            /\ Go(p, IF offset[p] < Blocks THEN "unlink" ELSE "kernels")
            /\ kfp' = Put(kfp, p, NoFile)
            /\ offset' = Put(offset, p, 0)
            /\ UNCHANGED <<file, binary, died, nth, fromsource, devicevars>>

\* After a short write, whichever file has the name now.
Unlink_Not(p) == /\ at[p] = "unlink"                               \* mutant
                 /\ Go(p, "kernels")
                 /\ UNCHANGED <<dirvars, nth, fromsource, devicevars>>

Unlink(p) == /\ at[p] = "unlink"
             /\ file' = [file EXCEPT ![Name(p)] = NoFile]
             /\ Go(p, "kernels")
             /\ UNCHANGED <<binary, kfp, offset, died, nth, fromsource, devicevars>>

CreateKernels(p) == /\ at[p] = "kernels"
                    /\ objects' = Created(p, {"kernels"})
                    /\ Go(p, "grid")
                    /\ UNCHANGED <<dirvars, nth, fromsource, vc_threads, opened, lost>>

\* One of the kernels of the first name may be there already.
CreateFails(p) == /\ at[p] = "kernels"
                  /\ \E some \in {{}, {"kernels"}} :
                       objects' = Put(objects, p, (objects[p] \ {<<nth[p], "program">>})
                                                  \cup ({nth[p]} \X some))
                  /\ Lose(p)
                  /\ UNCHANGED <<dirvars, fromsource, vc_threads, opened>>

-------------------------------------------------------------------------------
(* vg_ocl_context_new chooses or checks the sizes; main starts the threads. *)

GridFits(p) == /\ at[p] = "grid"
               /\ opened' = Put(opened, p, opened[p] \cup {nth[p]})
               /\ Tried(p)
               /\ UNCHANGED <<dirvars, fromsource, vc_threads, objects, lost>>

\* vg_ocl_context_free: all but the kernels is released.
GridFails(p) == /\ at[p] = "grid"
                /\ vc_threads' = Put(vc_threads, p, vc_threads[p] \ {nth[p]})
                /\ objects' = Released(p, Kinds \ {"kernels"})
                /\ Tried(p)
                /\ UNCHANGED <<dirvars, fromsource, opened, lost>>

Start(p) == /\ at[p] = "start"
            /\ Go(p, IF opened[p] = {} THEN "exit" ELSE "search")
            /\ UNCHANGED <<dirvars, nth, fromsource, devicevars>>

\* The process is killed, or the machine stops.
Die(p) == /\ at[p] \notin {"start", "exit", "search", "dead"}
          /\ died' = (died \/ at[p] \in {"write", "unlink"})
          /\ Go(p, "dead")
          /\ UNCHANGED <<file, binary, kfp, offset, nth, fromsource, devicevars>>

Step(p) == \/ NoDevice(p) \/ Open(p) \/ OpenFails(p)
           \/ LoadSource(p) \/ LoadBinary(p) \/ LoadShort(p) \/ Build(p) \/ BuildFails(p)
           \/ SkipSave(p) \/ OpenFile(p) \/ Write(p) \/ Close(p) \/ Unlink(p)
           \/ CreateKernels(p) \/ CreateFails(p)
           \/ GridFits(p) \/ GridFails(p) \/ Start(p) \/ Die(p)

Next == \E p \in Processes : Step(p)

Spec == Init /\ [][Next]_startvars

-------------------------------------------------------------------------------
(* Properties *)

TypeOK ==
  /\ file \in [Names -> Files \cup {NoFile}] /\ binary \in [Files -> SUBSET Whole]
  /\ at \in [Processes -> {"open", "load", "build", "save", "write", "unlink", "kernels",
                           "grid", "start", "exit", "search", "dead"}]
  /\ \A p \in Processes : nth[p] \in 1..Len(Hash[p]) + 1
  /\ fromsource \in [Processes -> BOOLEAN]
  /\ kfp \in [Processes -> Files \cup {NoFile}] /\ offset \in [Processes -> 0..Blocks]
  /\ \A p \in Processes : /\ vc_threads[p] \cup opened[p] \cup lost[p] \subseteq DevicesOf(p)
                          /\ objects[p] \subseteq DevicesOf(p) \X Kinds
  /\ died \in BOOLEAN

\* When no process writes, and none has died while it did, a file that a later start
\* would read is whole, whoever has written it together.
CacheWhole ==
  ~died /\ (\A p \in Processes : at[p] \notin {"write", "unlink"}) =>
    \A n \in Names : file[n] # NoFile => binary[file[n]] = Whole

\* Unless a device was lost, the threads that are started, and the objects that are
\* not released but for kernels, are those of the devices that main has counted.
OnlyOpened == \A p \in Processes : at[p] = "search" /\ lost[p] = {} =>
  /\ vc_threads[p] = opened[p]
  /\ \A d \in DevicesOf(p), k \in Kinds \ {"kernels"} :
       <<d, k>> \in objects[p] <=> d \in opened[p]

\* False: "Could not open device, ignoring" - a device that could not be opened is not
\* among those whose threads are started.
Ignored == \A p \in Processes : at[p] = "search" => vc_threads[p] = opened[p]

\* False: a device is lost for its binary only while that is being written.
OpensAgain == (\A p \in Processes : at[p] \notin {"write", "unlink"}) =>
                \A p \in Processes : ~ReadsShort(p)

\* Devices are opened from whole binaries, and what was not opened is not there.
StartsRight == TypeOK /\ CacheWhole /\ OnlyOpened
===============================================================================
