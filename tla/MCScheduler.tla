----------------------------- MODULE MCScheduler -----------------------------
EXTENDS DownloadScheduler

\* A file with a checksum from the dialog; a video of the browser, of a page on
\* no list of video sites; and, with Downloads = 3, a file of the browser whose
\* address looks like a video.
MCMedia == {2}
MCFromBrowser == {2, 3} \cap Ids
MCVideoSites == {3} \cap Ids
MCChecked == {1}
==============================================================================
