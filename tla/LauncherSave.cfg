SPECIFICATION Spec
CONSTANTS
  xex = xex
  addon = addon
  extracted = extracted
  dump = dump
  empty = empty
  width = width
  Xexes = {xex}
  Titles = {}
  AddOns = {addon}
  Others = {}
  Folders = {extracted, dump, empty}
  Home <- HomeOf
  Reach <- ReachOf
  ExeFolder = dump
  Settings = {width}
  Values = {0, 1}
  Engine <- EngineOf
  Default <- DefaultOf
  Launches <- UsualLaunches
  UserPaths = {dump, addon}
  Simultaneous = FALSE
  None = None
INVARIANTS SaveIsAtomic
\* Nothing obliges the user to launch again.
CHECK_DEADLOCK FALSE
