CONSTANTS
    Exporter = {1, 2}
    ProductExporter = {2}
    Excluded <- Excludes
    Rpm = {"a", "b", "c", "d"}
    Module = {"m1", "m2", "m3"}
    ModularPackages <- Contents
    Initial <- First
    Releases <- Second
    Uploads = {{"m2"}, {"m1", "m2"}, {"m3"}}
    KnownModules = {"m1", "m2"}
    UpdateInfos <- Infos
    Nothing = Nothing
    MaxExports = 2
    MaxReleases = 2
    MaxUploads = 1
    MaxWebExports = 1
    MaxExportFaults = 1
SPECIFICATION ExportSpec
INVARIANTS
    UploadKeepsPackages
    ExportIsPublished
    SignatureMatches
    ErrataOrderIndependent
CONSTRAINT FewDisturbances
CHECK_DEADLOCK FALSE
