-------------------------- MODULE MCCaptureScheduler --------------------------
EXTENDS CaptureScheduler, TLC

=============================================================================
