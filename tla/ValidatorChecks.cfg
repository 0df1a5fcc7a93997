SPECIFICATION Spec
CONSTANTS
    Unnumbered = Unnumbered
    SampleCount = 4
    LinuxSlack = 2
    WindowsSlack = 1
    Mega = 2
    Period = 6
    Values = {0, 8, 11, 12, 14}
    MaxPoints = 2
    Hits = {{"level"}, {"level", "id"}}
CHECK_DEADLOCK FALSE
INVARIANT FewValuesP99IsMax
