SPECIFICATION Spec
CONSTANTS
    Lidars = {lidar1, lidar2}
    lidar1 = lidar1
    lidar2 = lidar2
    Words = 16
    Dots = 2
    MaxTime = 2
    MaxPackets = 2
    MaxLines = 2
    MaxChunks = 3
    MaxScans = 2
INVARIANTS
    TypeOK
    StampsTellTheTime
    LinesSavedOnce
    LinesOfTheirScan
    LinesFollowTheLaser
SYMMETRY LidarSymmetry
