---------------------------- MODULE CapabilitiesMC ----------------------------
(* The grant pass and five parts of the extension, none of which shares state *)
(* with another: the first state says which of them moves.  The scan's queues *)
(* have up to four entries, d being a navigation.                             *)
EXTENDS GrantScan, PageRecording, NetworkCapture, NativeInput, PagePatches, PageInput, TLC

CONSTANTS a, b, c, d

VARIABLE focus

SomeQueues == {<<a, b, c>>, <<a, b, d>>, <<a, d>>, <<d, a, b>>, <<a, b, c, d>>}
IsNavigation(e) == e = d
Alike == Permutations(Gesture)

ScanIdle ==
    /\ queue = <<>> /\ ready = {} /\ canceled = {} /\ live = {} /\ tab = <<>> /\ before = {}
    /\ granted = {} /\ busy = {} /\ canceling = {} /\ at = 1 /\ pc = "mark"

CapabilitiesInit ==
    /\ \/ focus = "scan" /\ Init
       \/ focus \in {"recording", "capture", "input", "patches", "page"} /\ ScanIdle
    /\ RecordingInit /\ CaptureInit /\ InputInit /\ PatchInit /\ PageInputInit
    /\ focus # "recording" => ~rec.durable

CapabilitiesNext ==
    /\ UNCHANGED focus
    /\ \/ /\ focus = "scan" /\ Next
          /\ UNCHANGED <<recordingVars, captureVars, inputVars, patchVars, pageInputVars>>
       \/ /\ focus = "recording" /\ RecordingNext
          /\ UNCHANGED <<vars, captureVars, inputVars, patchVars, pageInputVars>>
       \/ /\ focus = "capture" /\ CaptureNext
          /\ UNCHANGED <<vars, recordingVars, inputVars, patchVars, pageInputVars>>
       \/ /\ focus = "input" /\ InputNext
          /\ UNCHANGED <<vars, recordingVars, captureVars, patchVars, pageInputVars>>
       \/ /\ focus = "patches" /\ PatchNext
          /\ UNCHANGED <<vars, recordingVars, captureVars, inputVars, pageInputVars>>
       \/ /\ focus = "page" /\ PageInputNext
          /\ UNCHANGED <<vars, recordingVars, captureVars, inputVars, patchVars>>

Capabilities == CapabilitiesInit /\ [][CapabilitiesNext]_<<focus, vars, recordingVars,
                                        captureVars, inputVars, patchVars, pageInputVars>>
=============================================================================
